---- MODULE Spec2Model ----
(***************************************************************************)
(* A model of ecdysis: the layered configuration resolver (config.go and   *)
(* the parsing-config decorator's pre-run hook in decorators.go) and the   *)
(* decorator pipeline (ecdysis.go, decorators.go).                         *)
(*                                                                         *)
(* Strings that the code transforms (configuration keys, environment       *)
(* variable names, environment values) are tuples of one-character         *)
(* strings, so that upper-casing, replacing and number parsing are         *)
(* computed character by character, as the code does.                      *)
(***************************************************************************)
EXTENDS Integers, Sequences, FiniteSets, TLC

VARIABLES
    env,         \* the process environment: variable name -> value, or Unset
    files,       \* the file system: path -> state of the file there
    cfg,         \* the Config value the command's Config() returns
    flagArgs,    \* per flag: the value supplied on the command line, or NotSupplied
    aliased,     \* TRUE when the flag targets are the fields of the destination
    flagTarget,  \* memory behind the flags' Ptr when it is not the destination
    dest,        \* the struct cfg.Parsed points to
    result,      \* what the last resolution returned ("none" before the first)
    did,         \* the steps the last resolution performed
    readPath,    \* the path the last resolution handed to ReadInConfig
    ops,         \* the resolutions run so far, oldest first
    prev,        \* dest as it was before the last resolution
    Decorators,  \* Ecdysis.Decorators
    optsLeft,    \* number of options New may still apply
    c,           \* the Command value handed to BuildCobraCommand
    cmd,         \* the cobra.Command BuildCobraCommand returned (NoCmd: nil)
    buildErr,    \* the error BuildCobraCommand returned (NoErr: nil)
    applied,     \* indices of the decorators whose Decorate was called by the last build
    calls,       \* what the last build called, in order: methods of the command
                 \* value, and BuildCobraCommand for its children
    constructed, \* TRUE once New has returned: commands are built, no option applies
    lastOpt,     \* the option the last step applied: kind, arguments, the list before
    defaultDecorators, \* the package variable DefaultDecorators, as it is now
    otherDecorators,   \* the list of another instance, made by New()
    shared,      \* the slices whose backing array e.Decorators has as its own
    obj,         \* the value handed to BuildFlags
    out,         \* what BuildFlags did with it: the Flags returned, or the panic
    registry,    \* the Flags in the caller's hands since BuildFlags returned
    regOp,       \* the last call of GetFlag or SetDefault on them, and what it returned
    ran,         \* TRUE once the command of the last build was executed
    input,       \* the execution: command line, standard input, what the value answers
    trace,       \* what the execution did, in order: hooks, calls, reads, prints
    runErr,      \* the error the execution returned (NoErr: nil)
    exited       \* TRUE when the execution ended the process with os.Exit(1)

cfgVars  == <<env, files, cfg, flagArgs, aliased, flagTarget, dest, result, did,
              readPath, ops, prev>>
pipeVars == <<Decorators, optsLeft, c, cmd, buildErr, applied, calls, constructed,
              lastOpt, defaultDecorators, otherDecorators, shared>>
flagVars == <<obj, out, registry, regOp>>
runVars  == <<ran, input, trace, runErr, exited>>
vars     == <<cfgVars, pipeVars, flagVars, runVars>>

-----------------------------------------------------------------------------
(* Bounds of the model.                                                    *)

\* resolutions run in one behaviour
MaxRuns == 2

-----------------------------------------------------------------------------
(* Strings as tuples of characters.                                        *)

Lower == <<"a","b","c","d","e","f","g","h","i","j","k","l","m","n","o","p","q","r","s","t","u","v","w","x","y","z">>
Upper == <<"A","B","C","D","E","F","G","H","I","J","K","L","M","N","O","P","Q","R","S","T","U","V","W","X","Y","Z">>
Digits == <<"0","1","2","3","4","5","6","7","8","9">>

\* strings.ToUpper, one character
ToUpperChar(ch) ==
    IF \E i \in 1..Len(Lower) : Lower[i] = ch
    THEN Upper[CHOOSE i \in 1..Len(Lower) : Lower[i] = ch]
    ELSE ch

\* strings.ToUpper
ToUpper(s) == [i \in 1..Len(s) |-> ToUpperChar(s[i])]

\* strings.ToLower, one character
ToLowerChar(ch) ==
    IF \E i \in 1..Len(Upper) : Upper[i] = ch
    THEN Lower[CHOOSE i \in 1..Len(Upper) : Upper[i] = ch]
    ELSE ch

\* strings.ToLower
ToLower(s) == [i \in 1..Len(s) |-> ToLowerChar(s[i])]

\* strings.Replacer.Replace for single-character pairs <<old, new>>, the first
\* matching pair wins
Replace(pairs, s) ==
    [i \in 1..Len(s) |->
        IF \E j \in 1..Len(pairs) : pairs[j][1] = s[i]
        THEN pairs[CHOOSE j \in 1..Len(pairs) :
                      /\ pairs[j][1] = s[i]
                      /\ \A h \in 1..(j-1) : pairs[h][1] # s[i]][2]
        ELSE s[i]]

IsDigit(ch) == \E i \in 1..Len(Digits) : Digits[i] = ch
DigitVal(ch) == (CHOOSE i \in 1..Len(Digits) : Digits[i] = ch) - 1

RECURSIVE ParseDigits(_)
ParseDigits(s) ==
    IF s = <<>> THEN 0
    ELSE 10 * ParseDigits(SubSeq(s, 1, Len(s) - 1)) + DigitVal(s[Len(s)])

\* the weak decode of a string into an int field (strconv.ParseInt): ok is
\* FALSE when the text is no decimal number
ParseInt(s) ==
    IF s # <<>> /\ \A i \in 1..Len(s) : IsDigit(s[i])
    THEN [ok |-> TRUE, val |-> ParseDigits(s)]
    ELSE [ok |-> FALSE, val |-> 0]

-----------------------------------------------------------------------------
(* The inputs of a resolution: keys, environment, files, Config.           *)

\* the long tags of cookingConfig's fields (the first is the test's own)
KeyHeatLevel == <<"h","e","a","t","-","l","e","v","e","l">>
KeyPort      == <<"p","o","r","t">>
Keys         == {KeyHeatLevel, KeyPort}

\* the fields of the destination struct that carry a tag
FieldNames == {"HeatLevel", "Port"}

\* Config.EnvPrefix
EnvPrefix == <<"C","o","o","k">>

\* names in the process environment
COOK_HEAT_LEVEL  == <<"C","O","O","K","_","H","E","A","T","_","L","E","V","E","L">>
COOK_HEAT_DASH   == <<"C","O","O","K","_","H","E","A","T","-","L","E","V","E","L">>
COOK_PORT        == <<"C","O","O","K","_","P","O","R","T">>
Cook_CONFIG_PATH == <<"C","o","o","k","_","C","O","N","F","I","G","_","P","A","T","H">>
COOK_CONFIG_PATH == <<"C","O","O","K","_","C","O","N","F","I","G","_","P","A","T","H">>
ValueEnvNames    == {COOK_HEAT_LEVEL, COOK_HEAT_DASH, COOK_PORT}
PathEnvNames     == {Cook_CONFIG_PATH, COOK_CONFIG_PATH}
EnvNames         == ValueEnvNames \cup PathEnvNames

\* a variable that is not in the environment, and one set to the empty string
Unset == <<"<unset>">>
Empty == <<>>

\* paths of config files
StaticPath == <<".","/","c","o","o","k",".","y","a","m","l">>
CustomPath == <<"/","t","m","p","/","c","u","s","t","o","m",".","y","a","m","l">>
Paths      == {StaticPath, CustomPath}

\* the values the tests give each source
DefaultHeat == 5
FileHeat    == 11
FlagHeat    == 22
CustomHeat  == 42
EnvHeat     == <<"3","3">>

\* a struct value of type cookingConfig, as reflection sees it: its fields in
\* declaration order with their tags (the last one carries no tag)
cookingConfig(heat, port) ==
    [kind |-> "struct", type |-> "cookingConfig", nil |-> FALSE, val |->
       << [name |-> "HeatLevel", long |-> KeyHeatLevel, short |-> <<>>, exported |-> TRUE,
           value |-> [kind |-> "int", type |-> "int", nil |-> FALSE, val |-> heat]],
          [name |-> "Port", long |-> KeyPort, short |-> <<>>, exported |-> TRUE,
           value |-> [kind |-> "int", type |-> "int", nil |-> FALSE, val |-> port]],
          [name |-> "Notes", long |-> <<>>, short |-> <<>>, exported |-> TRUE,
           value |-> [kind |-> "int", type |-> "int", nil |-> FALSE, val |-> 0]] >>]

\* newCookingConfig: the defaults of the test command
newCookingConfig == cookingConfig(DefaultHeat, 0)

\* a decode that takes each field from the other field's key
MapstructureKeySwapped(field) ==
    CASE field = "HeatLevel" -> KeyPort
      [] field = "Port"      -> KeyHeatLevel

\* the key a field of the destination is decoded from: its mapstructure tag
MapstructureKey(field) ==
    CASE field = "HeatLevel" -> KeyHeatLevel
      [] field = "Port"      -> KeyPort

\* BuildFlags binds the flag named by a field's long tag to that field
FlagPtr(key) ==
    CASE key = KeyHeatLevel -> "HeatLevel"
      [] key = KeyPort      -> "Port"

\* what cfg.Parsed can be: a nil interface, a struct value, a pointer to a
\* struct of the defaults' type, a pointer to a struct of another type
ParsedShapes ==
    { [kind |-> "invalid", type |-> "nil",            elem |-> "none"],
      [kind |-> "struct",  type |-> "cookingConfig",  elem |-> "none"],
      [kind |-> "ptr",     type |-> "*cookingConfig", elem |-> "cookingConfig"],
      [kind |-> "ptr",     type |-> "*otherConfig",   elem |-> "otherConfig"] }

\* the states of a file: absent, unreadable, not YAML, or a YAML document
NoContent == [k \in {} |-> 0]
FileStates(v) ==
    { [state |-> "missing", content |-> NoContent],
      [state |-> "unreadable", content |-> NoContent],
      [state |-> "malformed", content |-> NoContent] }
    \cup { [state |-> "ok", content |-> [k \in ks |-> v]] : ks \in SUBSET Keys }

-----------------------------------------------------------------------------
(* viper, as ParseConfig and the decorator's hook use it.                  *)

\* viper.New()
NewViper ==
    [defaults |-> NoContent, envPrefix |-> <<>>, automaticEnv |-> FALSE,
     replacer |-> <<>>, configFile |-> <<>>, config |-> NoContent, pflags |-> {}]

\* viper.SetDefault: keys are case-insensitive
SetDefault(v, key, value) ==
    [v EXCEPT !.defaults =
        [k \in DOMAIN v.defaults \cup {ToLower(key)} |->
            IF k = ToLower(key) THEN value ELSE v.defaults[k]]]

RECURSIVE setDefaults(_, _)
RECURSIVE setDefaultsFields(_, _, _)

\* the loop of setDefaults over the fields from index i on
setDefaultsFields(v, fields, i) ==
    IF i > Len(fields) THEN v
    ELSE
      LET field     == fields[i]
          fieldName == IF field.long # <<>> THEN field.long ELSE field.short
          v1 == IF fieldName = <<>> THEN v
                ELSE IF field.value.kind = "struct" THEN setDefaults(v, field.value)
                ELSE IF field.value.kind = "ptr"
                     THEN (IF field.value.nil THEN v ELSE setDefaults(v, field.value))
                ELSE IF field.exported THEN SetDefault(v, fieldName, field.value.val)
                ELSE v
      IN setDefaultsFields(v1, fields, i + 1)

setDefaults(v, defaults) ==
    IF defaults.kind = "ptr" /\ defaults.nil THEN v
    ELSE LET val == IF defaults.kind = "ptr" THEN defaults.val ELSE defaults
         IN IF val.kind # "struct" THEN v
            ELSE setDefaultsFields(v, val.val, 1)

\* os.Getenv: the empty string for a variable that is not set
Getenv(name) ==
    IF name \in DOMAIN env /\ env[name] # Unset THEN env[name] ELSE Empty

\* viper.mergeWithEnvPrefix and viper.getEnv: the prefixed, upper-cased key, passed
\* through the replacer; an empty value counts as not set
getEnv(v, key) ==
    LET merged == IF v.envPrefix # <<>> THEN ToUpper(v.envPrefix \o <<"_">> \o key)
                  ELSE ToUpper(key)
        name   == Replace(v.replacer, merged)
    IN [ok |-> Getenv(name) # Empty, val |-> Getenv(name)]

\* a read that merges nothing of the file into the configuration
ReadInConfigEmpty(v) ==
    LET f == files[v.configFile]
    IN CASE f.state = "missing"    -> [err |-> "not exist", config |-> NoContent]
         [] f.state = "unreadable" -> [err |-> "permission denied", config |-> NoContent]
         [] f.state = "malformed"  -> [err |-> "yaml: unmarshal error", config |-> NoContent]
         [] f.state = "ok"         -> [err |-> "nil", config |-> NoContent]

\* viper.ReadInConfig on the file set with SetConfigFile
ReadInConfig(v) ==
    LET f == files[v.configFile]
    IN CASE f.state = "missing"    -> [err |-> "not exist", config |-> NoContent]
         [] f.state = "unreadable" -> [err |-> "permission denied", config |-> NoContent]
         [] f.state = "malformed"  -> [err |-> "yaml: unmarshal error", config |-> NoContent]
         [] f.state = "ok"         ->
              [err |-> "nil",
               config |-> [k \in {ToLower(x) : x \in DOMAIN f.content} |->
                             f.content[CHOOSE x \in DOMAIN f.content : ToLower(x) = k]]]

\* os.IsNotExist
IsNotExist(err) == err = "not exist"

\* pflag.Flag.Changed: set by the parse of a flag the command line supplies
Changed(flag) == flagArgs[flag].supplied

\* pflag.Flag.Value.String(): the current content of the flag's target
ValueString(flag) ==
    IF aliased THEN dest[FlagPtr(flag)] ELSE flagTarget[FlagPtr(flag)]

\* cmd.Flags().VisitAll: the flags registered on the command
CmdFlags == DOMAIN flagArgs

\* viper.BindPFlag for every flag of the command
BindPFlags(v) == [v EXCEPT !.pflags = {ToLower(f) : f \in CmdFlags}]

\* a lookup that lets a registered flag win whether or not it was supplied
findAnyFlag(v, key) ==
    IF key \in v.pflags
      THEN [found |-> TRUE, kind |-> "int", int |-> ValueString(key), str |-> <<>>]
    ELSE IF v.automaticEnv /\ getEnv(v, key).ok
      THEN [found |-> TRUE, kind |-> "string", int |-> 0, str |-> getEnv(v, key).val]
    ELSE IF key \in DOMAIN v.config
      THEN [found |-> TRUE, kind |-> "int", int |-> v.config[key], str |-> <<>>]
    ELSE IF key \in DOMAIN v.defaults
      THEN [found |-> TRUE, kind |-> "int", int |-> v.defaults[key], str |-> <<>>]
    ELSE [found |-> FALSE, kind |-> "int", int |-> 0, str |-> <<>>]

\* viper.find: the sources of a key in viper's order of precedence
find(v, key) ==
    IF key \in v.pflags /\ Changed(key)
      THEN [found |-> TRUE, kind |-> "int", int |-> ValueString(key), str |-> <<>>]
    ELSE IF v.automaticEnv /\ getEnv(v, key).ok
      THEN [found |-> TRUE, kind |-> "string", int |-> 0, str |-> getEnv(v, key).val]
    ELSE IF key \in DOMAIN v.config
      THEN [found |-> TRUE, kind |-> "int", int |-> v.config[key], str |-> <<>>]
    ELSE IF key \in DOMAIN v.defaults
      THEN [found |-> TRUE, kind |-> "int", int |-> v.defaults[key], str |-> <<>>]
    ELSE IF key \in v.pflags
      THEN [found |-> TRUE, kind |-> "int", int |-> ValueString(key), str |-> <<>>]
    ELSE [found |-> FALSE, kind |-> "int", int |-> 0, str |-> <<>>]

\* viper.AllKeys: environment variables read through AutomaticEnv add no key
AllKeys(v) == v.pflags \cup DOMAIN v.config \cup DOMAIN v.defaults

\* the decode of one found value into an int field
DecodeInt(x) ==
    IF x.kind = "int" THEN [ok |-> TRUE, val |-> x.int] ELSE ParseInt(x.str)

\* viper.Unmarshal into the destination struct: every field whose key viper
\* knows is decoded from it, the others keep their value
Unmarshal(v, d) ==
    LET known(f) == MapstructureKey(f) \in AllKeys(v)
        dec(f)   == DecodeInt(find(v, MapstructureKey(f)))
    IN [err  |-> IF \A f \in DOMAIN d : known(f) => dec(f).ok
                 THEN "nil" ELSE "cannot parse",
        dest |-> [f \in DOMAIN d |->
                    IF known(f) /\ dec(f).ok THEN dec(f).val ELSE d[f]]]

-----------------------------------------------------------------------------
(* The two code paths that resolve a configuration.                        *)

NoPath == <<>>
PanicNilType == "panic: nil pointer dereference"

\* what one resolution leaves behind
Outcome(res, d, steps, path) ==
    [result |-> res, dest |-> d, did |-> steps, readPath |-> path]

\* strings.NewReplacer(".", "_", "-", "_") of bindViperConfig
EnvKeyReplacer == << <<".", "_">>, <<"-", "_">> >>

\* strings.NewReplacer(".", "_") of the decorator's hook
HookEnvKeyReplacer == << <<".", "_">> >>

\* fmt.Sprintf("%s_CONFIG_PATH", cfg.EnvPrefix)
configPathEnvVar(prefix) == prefix \o <<"_","C","O","N","F","I","G","_","P","A","T","H">>

\* a path choice that never looks at the environment
EffectivePathStatic(config) == config.Path

\* the path bindViperConfig hands to SetConfigFile
EffectivePath(config) ==
    IF Getenv(configPathEnvVar(config.EnvPrefix)) # Empty
    THEN Getenv(configPathEnvVar(config.EnvPrefix))
    ELSE config.Path

\* whether bindViperConfig gives up on the error ReadInConfig returned
ConfigFileFatal(err) == err # "nil" /\ ~IsNotExist(err)

\* whether the decorator's hook gives up on the error ReadInConfig returned
HookConfigFileFatal(err) == err # "nil"

\* bindViperConfig: environment, config file, flags
bindViperConfig(v, config) ==
    LET v1 == [v EXCEPT !.envPrefix = config.EnvPrefix, !.automaticEnv = TRUE,
                        !.replacer = EnvKeyReplacer]
        v2 == [v1 EXCEPT !.configFile = EffectivePath(config)]
        r  == ReadInConfig(v2)
    IN IF ConfigFileFatal(r.err)
       THEN [err |-> "fatal error config file", v |-> v2,
             did |-> {"env", "readFile"}, readPath |-> v2.configFile]
       ELSE [err |-> "nil", v |-> BindPFlags([v2 EXCEPT !.config = r.config]),
             did |-> {"env", "readFile", "bindFlags"}, readPath |-> v2.configFile]

\* ParseConfig(cfg, cmd)
ParseConfigOutcome ==
    IF cfg.Parsed.kind = "invalid"
      THEN Outcome(PanicNilType, dest, {}, NoPath)
    ELSE IF cfg.Parsed.kind # "ptr"
      THEN Outcome("parsed must be a pointer", dest, {}, NoPath)
    ELSE IF cfg.Parsed.elem # cfg.DefaultValues.type
      THEN Outcome("parsed and defaultValues must be the same type", dest, {}, NoPath)
    ELSE
      LET b == bindViperConfig(setDefaults(NewViper, cfg.DefaultValues), cfg)
      IN IF b.err # "nil"
         THEN Outcome("error parsing config: " \o b.err, dest,
                      {"setDefaults"} \cup b.did, b.readPath)
         ELSE LET u == Unmarshal(b.v, dest)
              IN Outcome(IF u.err = "nil" THEN "nil" ELSE "error unmarshalling config",
                         u.dest, {"setDefaults", "unmarshal"} \cup b.did, b.readPath)

\* the PreRunE closure CommandWithParsingConfigDecorator installs, when no
\* earlier PreRunE was installed
ParsingConfigPreRunEOutcome ==
    IF cfg.Parsed.kind # "ptr"
      THEN Outcome("ParsedConfig must be a pointer", dest, {}, NoPath)
    ELSE
      LET v0 == setDefaults(NewViper, cfg.DefaultValues)
          v1 == [v0 EXCEPT !.envPrefix = cfg.EnvPrefix, !.automaticEnv = TRUE,
                           !.replacer = HookEnvKeyReplacer]
          v2 == [v1 EXCEPT !.configFile = cfg.Path]
          r  == ReadInConfig(v2)
      IN IF HookConfigFileFatal(r.err)
         THEN Outcome("fatal error config file", dest,
                      {"setDefaults", "env", "readFile"}, v2.configFile)
         ELSE LET u == Unmarshal(BindPFlags([v2 EXCEPT !.config = r.config]), dest)
              IN Outcome(IF u.err = "nil" THEN "nil" ELSE "error unmarshalling config",
                         u.dest,
                         {"setDefaults", "env", "readFile", "bindFlags", "unmarshal"},
                         v2.configFile)

\* one resolution by the code path named op
Resolve(op, o) ==
    /\ Len(ops) < MaxRuns
    /\ result # PanicNilType
    /\ dest' = o.dest
    /\ result' = o.result
    /\ did' = o.did
    /\ readPath' = o.readPath
    /\ ops' = Append(ops, op)
    /\ prev' = dest
    /\ UNCHANGED <<env, files, cfg, flagArgs, aliased, flagTarget, pipeVars, flagVars, runVars>>

ParseConfig == Resolve("ParseConfig", ParseConfigOutcome)

ParsingConfigPreRunE == Resolve("PreRunE", ParsingConfigPreRunEOutcome)

-----------------------------------------------------------------------------
(* Decorators and the options of New.                                      *)

\* the kinds of DefaultDecorators, in the order of the list
DefaultKinds ==
    << "CommandWithLoggerDecorator", "CommandWithAliasesDecorator",
       "CommandWithFlagsDecorator", "CommandWithParsingConfigDecorator",
       "CommandWithDocsDecorator", "CommandWithHiddenDecorator",
       "CommandWithSubCommandsDecorator", "CommandWithDeprecatedDecorator",
       "CommandWithArgsDecorator", "CommandWithConfirmDecorator",
       "CommandWithPromptDecorator", "CommandWithExecuteDecorator" >>

\* a decorator instance: the struct type it is of, whether the interface
\* holds a pointer to the struct or the struct itself, and the instance's
\* fields (Logger for the logger decorator, the outcome for a decorator the
\* application defines)
Decorator(kind, ptr, inst) == [kind |-> kind, ptr |-> ptr, inst |-> inst]

\* var DefaultDecorators: one value instance per kind, no field set
DefaultDecorators ==
    [i \in 1..Len(DefaultKinds) |-> Decorator(DefaultKinds[i], FALSE, "zero")]

\* reflect.TypeOf(d): the struct type behind ptrs levels of pointer
TypeOf(d) == [name |-> d.kind, ptrs |-> IF d.ptr THEN 1 ELSE 0]

\* the %T of a decorator
TypeString(d) == (IF d.ptr THEN "*" ELSE "") \o "ecdysis." \o d.kind

RECURSIVE Elems(_)
\* the loop of getDecoratorType: t = t.Elem() while t is a pointer type
Elems(t) == IF t.ptrs > 0 THEN Elems([t EXCEPT !.ptrs = t.ptrs - 1]) ELSE t

\* a type lookup that does not look through pointers
getDecoratorTypeNoElem(d) == TypeOf(d)

\* getDecoratorType(d)
getDecoratorType(d) == Elems(TypeOf(d))

\* the body of WithDecorators' loop for one decorator d
WithDecorator(list, d) ==
    LET newType == getDecoratorType(d)
        hits    == {i \in 1..Len(list) : getDecoratorType(list[i]) = newType}
    IN IF hits # {}
       THEN [list EXCEPT ![CHOOSE i \in hits : \A j \in hits : i <= j] = d]
       ELSE Append(list, d)

\* a WithDecorators that looks every decorator up in the list as the option
\* found it, not in the list as the decorators before it left it
WithDecoratorsBatch(list, decorators) ==
    LET same(a, b) == getDecoratorType(a) = getDecoratorType(b)
        last(i)    == CHOOSE k \in 1..Len(decorators) :
                         /\ same(decorators[k], list[i])
                         /\ \A j \in 1..Len(decorators) :
                               same(decorators[j], list[i]) => j <= k
    IN [i \in 1..Len(list) |->
           IF \E k \in 1..Len(decorators) : same(decorators[k], list[i])
           THEN decorators[last(i)] ELSE list[i]]
       \o SelectSeq(decorators,
                    LAMBDA d : \A i \in 1..Len(list) : ~same(d, list[i]))

RECURSIVE WithDecorators(_, _)
\* the option WithDecorators(decorators...) applied to the list
WithDecorators(list, decorators) ==
    IF decorators = <<>> THEN list
    ELSE WithDecorators(WithDecorator(list, Head(decorators)), Tail(decorators))

\* an option that leaves the list as it found it
WithoutDefaultDecoratorsKept(list) == list

\* an option that removes the entries DefaultDecorators holds and no other
WithoutDefaultDecoratorsOnly(list) ==
    SelectSeq(list, LAMBDA d : \A i \in 1..Len(DefaultDecorators) : d # DefaultDecorators[i])

\* the option WithoutDefaultDecorators() applied to the list
WithoutDefaultDecorators(list) == <<>>

-----------------------------------------------------------------------------
(* Command values and command objects.                                     *)

\* the optional interfaces a command value can implement
Caps == { "Logger", "Aliases", "Flags", "ParsingConfig", "Docs", "Hidden",
          "SubCommands", "Deprecated", "Args", "Confirm", "Prompt", "Execute" }

\* the interface each decorator kind asserts
Capability(kind) ==
    CASE kind = "CommandWithLoggerDecorator"        -> "Logger"
      [] kind = "CommandWithAliasesDecorator"       -> "Aliases"
      [] kind = "CommandWithFlagsDecorator"         -> "Flags"
      [] kind = "CommandWithParsingConfigDecorator" -> "ParsingConfig"
      [] kind = "CommandWithDocsDecorator"          -> "Docs"
      [] kind = "CommandWithHiddenDecorator"        -> "Hidden"
      [] kind = "CommandWithSubCommandsDecorator"   -> "SubCommands"
      [] kind = "CommandWithDeprecatedDecorator"    -> "Deprecated"
      [] kind = "CommandWithArgsDecorator"          -> "Args"
      [] kind = "CommandWithConfirmDecorator"       -> "Confirm"
      [] kind = "CommandWithPromptDecorator"        -> "Prompt"
      [] kind = "CommandWithExecuteDecorator"       -> "Execute"
      [] OTHER                                      -> "none"

\* a command value: what Usage(), Flags(), SubCommands() and Hidden() return
\* and the interfaces it implements
Command(usage, caps, flags, subs, hidden) ==
    [usage |-> usage, caps |-> caps, flags |-> flags, subs |-> subs, hidden |-> hidden]

\* a Flag as Flags() returns it; Ptr is the type of the pointer
Flag(long, short, usage, required, persistent, ptr, hidden) ==
    [Long |-> long, Short |-> short, Usage |-> usage, Required |-> required,
     Persistent |-> persistent, Default |-> [set |-> FALSE, str |-> ""],
     Ptr |-> ptr, Hidden |-> hidden]

\* a switch with one more case, for *uint
SupportedPtrTypesAndUint ==
    { "*string", "*int", "*int8", "*int16", "*int32", "*int64", "*float32",
      "*float64", "*bool", "*time.Duration", "*[]bool", "*[]float32",
      "*[]float64", "*[]int32", "*[]int64", "*[]int", "*[]string", "*uint" }

\* the pointer types the flags decorator's switch has a case for
SupportedPtrTypes ==
    { "*string", "*int", "*int8", "*int16", "*int32", "*int64", "*float32",
      "*float64", "*bool", "*time.Duration", "*[]bool", "*[]float32",
      "*[]float64", "*[]int32", "*[]int64", "*[]int", "*[]string" }

\* the String() of the default the switch supplies when Default is nil
ZeroValue(ptr) ==
    CASE ptr = "*string" -> ""
      [] ptr \in {"*int", "*int8", "*int16", "*int32", "*int64",
                  "*float32", "*float64"} -> "0"
      [] ptr = "*bool" -> "false"
      [] ptr = "*time.Duration" -> "0s"
      [] OTHER -> "[]"

\* &cobra.Command{Use: use}; PreRunE and RunE hold the closures installed so
\* far, oldest first: each closure captured the one before it as old, and
\* the empty sequence is the nil hook
cobraCommand(use) ==
    [isNil |-> FALSE, Use |-> use, Aliases |-> <<>>, Short |-> "", Long |-> "",
     Example |-> "", Hidden |-> FALSE, Flags |-> <<>>, PersistentFlags |-> <<>>,
     Commands |-> <<>>, PreRunE |-> <<>>, RunE |-> <<>>]

\* the nil *cobra.Command
NoCmd == [cobraCommand("") EXCEPT !.isNil = TRUE]

\* errors are chains, outermost first; the nil error is the empty chain
NoErr == <<>>
Errorf(msg, arg, wrapped) == <<[msg |-> msg, arg |-> arg]>> \o wrapped

\* what one Decorate call returns and does
Done(err, panic, cmdv, called) ==
    [err |-> err, panic |-> panic, cmd |-> cmdv, calls |-> called]

Call(method, arg) == [method |-> method, arg |-> arg]

\* pflag.FlagSet.AddFlag: a name or shorthand already in the set panics
Redefined(set, name, short) ==
    \E i \in 1..Len(set) :
        set[i].Name = name \/ (short # "" /\ set[i].Shorthand = short)

\* a marking that changes nothing
MarkNothing(set, name, field) == set

pflagFlag(name, short, usage, def, type) ==
    [Name |-> name, Shorthand |-> short, Usage |-> usage, DefValue |-> def,
     Type |-> type, Required |-> FALSE, Hidden |-> FALSE]

\* cobra.MarkFlagRequired / FlagSet.MarkHidden on the flag named name
Mark(set, name, field) ==
    [i \in 1..Len(set) |->
        IF set[i].Name = name
        THEN (IF field = "Required" THEN [set[i] EXCEPT !.Required = TRUE]
              ELSE [set[i] EXCEPT !.Hidden = TRUE])
        ELSE set[i]]

-----------------------------------------------------------------------------
(* The decorators: Decorate(e, cmd, c) of each kind.                       *)

RECURSIVE BuildCobraCommand(_, _)
RECURSIVE BuildLoop(_, _, _, _, _)
RECURSIVE Decorate(_, _, _, _)
RECURSIVE AddSubCommands(_, _, _, _)

\* a logger decorator that hands over the default logger whatever it holds
LoggerDecorateDefault(d, cmdv, cv) ==
    IF "Logger" \notin cv.caps THEN Done(NoErr, FALSE, cmdv, <<>>)
    ELSE Done(NoErr, FALSE, cmdv, <<Call("Logger", "slog.Default()")>>)

\* CommandWithLoggerDecorator.Decorate
LoggerDecorate(d, cmdv, cv) ==
    IF "Logger" \notin cv.caps THEN Done(NoErr, FALSE, cmdv, <<>>)
    ELSE Done(NoErr, FALSE, cmdv,
              <<Call("Logger", IF d.inst = "zero" THEN "slog.Default()" ELSE d.inst)>>)

\* CommandWithAliasesDecorator.Decorate
AliasesDecorate(cmdv, cv) ==
    IF "Aliases" \notin cv.caps THEN Done(NoErr, FALSE, cmdv, <<>>)
    ELSE Done(NoErr, FALSE, [cmdv EXCEPT !.Aliases = <<"foo", "bar">>],
              <<Call("Aliases", "")>>)

RECURSIVE RegisterFlags(_, _, _)
\* the loop of CommandWithFlagsDecorator.Decorate over v.Flags(), from index i
RegisterFlags(cmdv, flags, i) ==
    IF i > Len(flags) THEN Done(NoErr, FALSE, cmdv, <<>>)
    ELSE
      LET f     == flags[i]
          set   == IF f.Persistent THEN cmdv.PersistentFlags ELSE cmdv.Flags
          usage == IF f.Required THEN f.Usage \o " (required)" ELSE f.Usage
          def   == IF f.Default.set THEN f.Default.str ELSE ZeroValue(f.Ptr)
          s1    == Append(set, pflagFlag(f.Long, f.Short, usage, def, f.Ptr))
          s2    == IF f.Required THEN Mark(s1, f.Long, "Required") ELSE s1
          s3    == IF f.Hidden THEN Mark(s2, f.Long, "Hidden") ELSE s2
      IN IF f.Ptr \notin SupportedPtrTypes
           THEN Done(Errorf("unexpected flag value type", f.Ptr, NoErr), FALSE, cmdv, <<>>)
         ELSE IF Redefined(set, f.Long, f.Short)
           THEN Done(Errorf("panic", "flag redefined: " \o f.Long, NoErr), TRUE, cmdv, <<>>)
         ELSE RegisterFlags(IF f.Persistent THEN [cmdv EXCEPT !.PersistentFlags = s3]
                            ELSE [cmdv EXCEPT !.Flags = s3],
                            flags, i + 1)

\* CommandWithFlagsDecorator.Decorate
FlagsDecorate(cmdv, cv) ==
    IF "Flags" \notin cv.caps THEN Done(NoErr, FALSE, cmdv, <<>>)
    ELSE LET r == RegisterFlags(cmdv, cv.flags, 1)
         IN Done(r.err, r.panic, r.cmd, <<Call("Flags", "")>>)

\* CommandWithParsingConfigDecorator.Decorate
ParsingConfigDecorate(cmdv, cv) ==
    IF "ParsingConfig" \notin cv.caps THEN Done(NoErr, FALSE, cmdv, <<>>)
    ELSE Done(NoErr, FALSE, [cmdv EXCEPT !.PreRunE = Append(@, "ParsingConfig")], <<>>)

\* CommandWithDocsDecorator.Decorate
DocsDecorate(cmdv, cv) ==
    IF "Docs" \notin cv.caps THEN Done(NoErr, FALSE, cmdv, <<>>)
    ELSE Done(NoErr, FALSE,
              [cmdv EXCEPT !.Long = "long-bar", !.Short = "short-foo",
                           !.Example = "example-baz"],
              <<Call("Docs", "")>>)

\* CommandWithHiddenDecorator.Decorate
HiddenDecorate(cmdv, cv) ==
    IF "Hidden" \notin cv.caps THEN Done(NoErr, FALSE, cmdv, <<>>)
    ELSE Done(NoErr, FALSE, [cmdv EXCEPT !.Hidden = cv.hidden], <<Call("Hidden", "")>>)

\* the loop of CommandWithSubCommandsDecorator.Decorate over v.SubCommands():
\* each e.BuildCobraCommand(sub) is recorded with the usage of sub
AddSubCommands(e, cmdv, subs, i) ==
    IF i > Len(subs) THEN Done(NoErr, FALSE, cmdv, <<>>)
    ELSE LET b    == BuildCobraCommand(e, subs[i])
             call == <<Call("BuildCobraCommand", subs[i].usage)>>
         IN IF b.panic THEN Done(b.err, TRUE, cmdv, call)
            ELSE IF b.err # NoErr
              THEN Done(Errorf("failed to build subcommand", subs[i].usage, b.err),
                        FALSE, cmdv, call)
            ELSE LET r == AddSubCommands(e, [cmdv EXCEPT !.Commands = Append(@, b.cmd)],
                                         subs, i + 1)
                 IN [r EXCEPT !.calls = call \o @]

\* a subcommands decorator that builds the children with the default list
SubCommandsDecorateDefault(e, cmdv, cv) ==
    IF "SubCommands" \notin cv.caps THEN Done(NoErr, FALSE, cmdv, <<>>)
    ELSE LET r == AddSubCommands(DefaultDecorators, cmdv, cv.subs, 1)
         IN Done(r.err, r.panic, r.cmd, <<Call("SubCommands", "")>> \o r.calls)

\* CommandWithSubCommandsDecorator.Decorate
SubCommandsDecorate(e, cmdv, cv) ==
    IF "SubCommands" \notin cv.caps THEN Done(NoErr, FALSE, cmdv, <<>>)
    ELSE LET r == AddSubCommands(e, cmdv, cv.subs, 1)
         IN Done(r.err, r.panic, r.cmd, <<Call("SubCommands", "")>> \o r.calls)

\* a deprecation decorator that leaves cmd.Hidden as it found it
DeprecatedDecorateShown(cmdv, cv) ==
    IF "Deprecated" \notin cv.caps THEN Done(NoErr, FALSE, cmdv, <<>>)
    ELSE Done(NoErr, FALSE, [cmdv EXCEPT !.PreRunE = Append(@, "Deprecated")], <<>>)

\* CommandWithDeprecatedDecorator.Decorate
DeprecatedDecorate(cmdv, cv) ==
    IF "Deprecated" \notin cv.caps THEN Done(NoErr, FALSE, cmdv, <<>>)
    ELSE Done(NoErr, FALSE,
              [cmdv EXCEPT !.Hidden = TRUE, !.PreRunE = Append(@, "Deprecated")], <<>>)

\* an args decorator whose closure does not call the closure it replaces
ArgsDecorateAlone(cmdv, cv) ==
    IF "Args" \notin cv.caps THEN Done(NoErr, FALSE, cmdv, <<>>)
    ELSE Done(NoErr, FALSE, [cmdv EXCEPT !.PreRunE = <<"Args">>], <<>>)

\* CommandWithArgsDecorator.Decorate
ArgsDecorate(cmdv, cv) ==
    IF "Args" \notin cv.caps THEN Done(NoErr, FALSE, cmdv, <<>>)
    ELSE Done(NoErr, FALSE, [cmdv EXCEPT !.PreRunE = Append(@, "Args")], <<>>)

\* the force and yolo flags the confirm and the prompt decorator register on
\* cmd.Flags(), yolo hidden, and the run hook they install
BypassFlags(cmdv, hook) ==
    LET force == pflagFlag("force", "f", "skip confirmation prompt", "false", "*bool")
        yolo  == pflagFlag("yolo", "", "skip confirmation prompt", "false", "*bool")
    IN IF Redefined(cmdv.Flags, "force", "f")
         THEN Done(Errorf("panic", "flag redefined: force", NoErr), TRUE, cmdv, <<>>)
       ELSE IF Redefined(Append(cmdv.Flags, force), "yolo", "")
         THEN Done(Errorf("panic", "flag redefined: yolo", NoErr), TRUE, cmdv, <<>>)
       ELSE Done(NoErr, FALSE,
                 [cmdv EXCEPT !.Flags = Mark(Append(Append(@, force), yolo), "yolo", "Hidden"),
                              !.RunE = Append(@, hook)],
                 <<>>)

\* CommandWithConfirmDecorator.Decorate
ConfirmDecorate(cmdv, cv) ==
    IF "Confirm" \notin cv.caps THEN Done(NoErr, FALSE, cmdv, <<>>)
    ELSE BypassFlags(cmdv, "Confirm")

\* CommandWithPromptDecorator.Decorate
PromptDecorate(cmdv, cv) ==
    IF "Prompt" \notin cv.caps THEN Done(NoErr, FALSE, cmdv, <<>>)
    ELSE BypassFlags(cmdv, "Prompt")

\* an execute decorator that does not ask whether the value implements Execute
ExecuteDecorateAlways(cmdv, cv) ==
    Done(NoErr, FALSE, [cmdv EXCEPT !.RunE = Append(@, "Execute")], <<>>)

\* CommandWithExecuteDecorator.Decorate
ExecuteDecorate(cmdv, cv) ==
    IF "Execute" \notin cv.caps THEN Done(NoErr, FALSE, cmdv, <<>>)
    ELSE Done(NoErr, FALSE, [cmdv EXCEPT !.RunE = Append(@, "Execute")], <<>>)

\* Decorate of a decorator the application defines: it fails or it succeeds,
\* as its instance says, and leaves the command alone
CustomDecorate(d, cmdv, cv) ==
    IF d.inst = "fails"
    THEN Done(Errorf("custom decorator failed", "", NoErr), FALSE, cmdv, <<>>)
    ELSE Done(NoErr, FALSE, cmdv, <<>>)

\* d.Decorate(e, cmd, c): the dynamic dispatch on the decorator's type
Decorate(d, e, cmdv, cv) ==
    CASE d.kind = "CommandWithLoggerDecorator"        -> LoggerDecorate(d, cmdv, cv)
      [] d.kind = "CommandWithAliasesDecorator"       -> AliasesDecorate(cmdv, cv)
      [] d.kind = "CommandWithFlagsDecorator"         -> FlagsDecorate(cmdv, cv)
      [] d.kind = "CommandWithParsingConfigDecorator" -> ParsingConfigDecorate(cmdv, cv)
      [] d.kind = "CommandWithDocsDecorator"          -> DocsDecorate(cmdv, cv)
      [] d.kind = "CommandWithHiddenDecorator"        -> HiddenDecorate(cmdv, cv)
      [] d.kind = "CommandWithSubCommandsDecorator"   -> SubCommandsDecorate(e, cmdv, cv)
      [] d.kind = "CommandWithDeprecatedDecorator"    -> DeprecatedDecorate(cmdv, cv)
      [] d.kind = "CommandWithArgsDecorator"          -> ArgsDecorate(cmdv, cv)
      [] d.kind = "CommandWithConfirmDecorator"       -> ConfirmDecorate(cmdv, cv)
      [] d.kind = "CommandWithPromptDecorator"        -> PromptDecorate(cmdv, cv)
      [] d.kind = "CommandWithExecuteDecorator"       -> ExecuteDecorate(cmdv, cv)
      [] OTHER                                        -> CustomDecorate(d, cmdv, cv)

\* what BuildCobraCommand returns, and what it did on the way
Built(cmdv, err, panic, app, called) ==
    [cmd |-> cmdv, err |-> err, panic |-> panic, applied |-> app, calls |-> called]

\* a loop that goes on whatever the decorator returned
ContinuesAlways(r) == TRUE

\* whether the loop of BuildCobraCommand goes on after the decorator at index i
Continues(r) == r.err = NoErr

\* the loop of BuildCobraCommand over e.Decorators, from index i
BuildLoop(e, cv, cmdv, i, acc) ==
    IF i > Len(e) THEN Built(cmdv, NoErr, FALSE, acc.applied, acc.calls)
    ELSE LET r   == Decorate(e[i], e, cmdv, cv)
             app == Append(acc.applied, i)
             cls == acc.calls \o r.calls
         IN IF r.panic THEN Built(NoCmd, r.err, TRUE, app, cls)
            ELSE IF ~Continues(r)
              THEN Built(NoCmd,
                         Errorf("failed to decorate command with", TypeString(e[i]), r.err),
                         FALSE, app, cls)
            ELSE BuildLoop(e, cv, r.cmd, i + 1, [applied |-> app, calls |-> cls])

\* Ecdysis.BuildCobraCommand(c)
BuildCobraCommand(e, cv) ==
    BuildLoop(e, cv, cobraCommand(cv.usage), 1,
              [applied |-> <<>>, calls |-> <<Call("Usage", "")>>])

-----------------------------------------------------------------------------
(* The pipeline: New with its options, then builds.                        *)

\* options New applies
MaxOpts == 2
\* decorators one WithDecorators call supplies
MaxArgs == 2

\* the decorators an application hands to WithDecorators: the logger
\* decorator with a logger, as a value and as a pointer, and a decorator of
\* its own that succeeds (a value) or fails (a pointer)
Pool ==
    { Decorator("CommandWithLoggerDecorator", FALSE, "wantLogger"),
      Decorator("CommandWithLoggerDecorator", TRUE, "ptrLogger"),
      Decorator("myDecorator", FALSE, "ok"),
      Decorator("myDecorator", TRUE, "fails") }

\* default decorators handed over in another order than the default list's:
\* execute before confirm, args before deprecation before configuration
Reordered ==
    { << Decorator("CommandWithExecuteDecorator", FALSE, "zero"),
         Decorator("CommandWithConfirmDecorator", FALSE, "zero") >>,
      << Decorator("CommandWithArgsDecorator", FALSE, "zero"),
         Decorator("CommandWithDeprecatedDecorator", FALSE, "zero"),
         Decorator("CommandWithParsingConfigDecorator", FALSE, "zero"),
         Decorator("CommandWithExecuteDecorator", FALSE, "zero") >> }

ArgLists == UNION { [1..n -> Pool] : n \in 1..MaxArgs } \cup Reordered

NoOpt == [kind |-> "none", args |-> <<>>, before |-> <<>>]

\* flags as the tests declare them, and a list with a flag of a type the
\* flags decorator has no case for
GoodFlags ==
    << Flag("flag1", "a", "flag1 usage", TRUE, FALSE, "*string", FALSE),
       Flag("flag2", "b", "flag2 usage", FALSE, TRUE, "*int", TRUE) >>
BadFlags ==
    << Flag("flag1", "a", "flag1 usage", TRUE, FALSE, "*string", FALSE),
       Flag("flag3", "c", "flag3 usage", FALSE, FALSE, "*uint", FALSE),
       Flag("flag2", "b", "flag2 usage", FALSE, TRUE, "*int", FALSE) >>

\* the flag the deprecation notice is silenced by
JsonFlags == << Flag("json", "", "output json", FALSE, FALSE, "*bool", FALSE) >>

\* command values: one that implements Usage only, children, the tests' own
UsageOnly == Command("mock", {}, <<>>, <<>>, FALSE)
subCmd    == Command("subCmd", {}, <<>>, <<>>, FALSE)
badSub    == Command("badSub", {"Flags"}, BadFlags, <<>>, FALSE)
oldSub    == Command("old", {"ParsingConfig", "Deprecated", "Execute"}, <<>>, <<>>, FALSE)
testCmd   == Command("cmd1", {"Docs", "Aliases", "Flags", "SubCommands"},
                     GoodFlags, <<subCmd>>, FALSE)
BehavioralTestCommand == Command("mock", {"Args", "Logger", "Execute"}, <<>>, <<>>, FALSE)

\* every command value the builds are handed: one per optional interface
\* alone, the tests' values, and values that make a decorator fail
Commands ==
    { Command("mock", {cap},
              IF cap = "Flags" THEN GoodFlags ELSE <<>>,
              IF cap = "SubCommands" THEN <<subCmd>> ELSE <<>>,
              cap = "Hidden") : cap \in Caps }
    \cup { UsageOnly, testCmd, BehavioralTestCommand, badSub,
           Command("parent", {"SubCommands", "Execute"}, <<>>,
                   <<subCmd, badSub, subCmd>>, FALSE),
           Command("mock", {"Flags", "Docs", "Args", "Execute"}, BadFlags, <<>>, FALSE),
           Command("mock", {"Confirm", "Execute"}, <<>>, <<>>, FALSE),
           Command("mock", {"Prompt", "Execute"}, <<>>, <<>>, FALSE),
           Command("mock", {"Confirm", "Prompt", "Execute"}, <<>>, <<>>, FALSE),
           Command("mock", {"Hidden", "Deprecated"}, <<>>, <<>>, FALSE),
           Command("mock", {"Hidden", "Execute"}, <<>>, <<>>, FALSE),
           Command("mock", {"ParsingConfig", "Deprecated", "Args", "Execute"},
                   <<>>, <<>>, FALSE),
           Command("old", {"Deprecated", "Execute"}, <<>>, <<>>, FALSE),
           Command("old", {"Flags", "ParsingConfig", "Deprecated", "Execute"},
                   JsonFlags, <<>>, FALSE),
           Command("parent", {"SubCommands"}, <<>>, <<oldSub>>, FALSE),
           Command("root", {"SubCommands"}, <<>>,
                   <<subCmd, Command("add", {"SubCommands", "Execute"}, <<>>,
                                     <<subCmd>>, FALSE)>>, FALSE) }

\* a New that takes DefaultDecorators as the list, without a copy
NewSharesDefaultDecorators == {"DefaultDecorators"}

\* the slices that have the backing array of the list New makes: none, New
\* makes an array of the length of DefaultDecorators and copies into it
NewShares == {}

RECURSIVE WrittenThrough(_, _, _)
\* what a slice on the backing array of the list sees after
\* WithDecorators(decorators...): e.Decorators[i] = d writes into the array;
\* the list is as long as its array, so the first append moves it to a new
\* array and what follows is written there
WrittenThrough(view, list, decorators) ==
    IF decorators = <<>> THEN view
    ELSE LET d    == Head(decorators)
             hits == {i \in 1..Len(list) : getDecoratorType(list[i]) = getDecoratorType(d)}
             i    == CHOOSE h \in hits : \A j \in hits : h <= j
         IN IF hits = {} THEN view
            ELSE WrittenThrough([view EXCEPT ![i] = d], [list EXCEPT ![i] = d],
                                Tail(decorators))

\* no execution: the root command, no flag supplied, nothing on standard input
NoInput ==
    [target |-> 0, ctx |-> "context.Background()", force |-> FALSE, yolo |-> FALSE,
     json |-> FALSE, stdin |-> <<>>, promptOk |-> FALSE, skipPrompt |-> FALSE,
     argsErr |-> FALSE, executeErr |-> FALSE]

\* one option of New: opt(e) for opt = WithDecorators(decorators...)
OptWithDecorators(decorators) ==
    /\ ~constructed
    /\ optsLeft > 0
    /\ Decorators' = WithDecorators(Decorators, decorators)
    /\ optsLeft' = optsLeft - 1
    /\ lastOpt' = [kind |-> "WithDecorators", args |-> decorators, before |-> Decorators]
    /\ defaultDecorators' =
          IF "DefaultDecorators" \in shared
          THEN WrittenThrough(defaultDecorators, Decorators, decorators)
          ELSE defaultDecorators
    /\ otherDecorators' =
          IF shared \cap NewShares # {}
          THEN WrittenThrough(otherDecorators, Decorators, decorators)
          ELSE otherDecorators
    /\ shared' = IF Len(Decorators') > Len(Decorators) THEN {} ELSE shared
    /\ UNCHANGED <<c, cmd, buildErr, applied, calls, constructed, cfgVars, flagVars, runVars>>

\* one option of New: opt(e) for opt = WithoutDefaultDecorators()
OptWithoutDefaultDecorators ==
    /\ ~constructed
    /\ optsLeft > 0
    /\ Decorators' = WithoutDefaultDecorators(Decorators)
    /\ optsLeft' = optsLeft - 1
    /\ lastOpt' = [kind |-> "WithoutDefaultDecorators", args |-> <<>>, before |-> Decorators]
    /\ shared' = {}
    /\ UNCHANGED <<c, cmd, buildErr, applied, calls, constructed, defaultDecorators,
                   otherDecorators, cfgVars, flagVars, runVars>>

\* e.BuildCobraCommand(cv) on the instance New returned
Build(cv) ==
    LET b == BuildCobraCommand(Decorators, cv)
    IN /\ ~ran
       /\ c' = cv
       /\ cmd' = b.cmd
       /\ buildErr' = b.err
       /\ applied' = b.applied
       /\ calls' = b.calls
       /\ constructed' = TRUE
       /\ lastOpt' = NoOpt
       /\ ran' = FALSE
       /\ input' = NoInput
       /\ trace' = <<>>
       /\ runErr' = NoErr
       /\ exited' = FALSE
       /\ UNCHANGED <<Decorators, optsLeft, defaultDecorators, otherDecorators, shared,
                      cfgVars, flagVars>>

-----------------------------------------------------------------------------
(* Execution of a built command: cobra runs PreRunE, then RunE.            *)

\* the contexts an execution is handed
Contexts == {"context.Background()", "context.WithValue(k, v)"}

\* a context is the chain of the values stored in it, the last stored first
Background == <<>>
WithValue(ctx, key, val) == <<[key |-> key, val |-> val]>> \o ctx

\* ctx.Value(key): the value stored last under key, in a tuple, or the
\* empty tuple for nil
ctxValue(ctx, key) ==
    LET hits == {k \in 1..Len(ctx) : ctx[k].key = key}
    IN IF hits = {} THEN <<>>
       ELSE <<ctx[CHOOSE k \in hits : \A j \in hits : k <= j].val>>

\* the chain of a context an execution is handed
ContextOf(name) ==
    IF name = "context.Background()" THEN Background
    ELSE WithValue(Background, "k", "v")

\* ContextWithCobraCommand(ctx, cmd)
ContextWithCobraCommand(ctx, cmdv) == WithValue(ctx, "cobraCmdCtxKey{}", cmdv)

\* CobraCmdFromContext(ctx)
CobraCmdFromContext(ctx) ==
    LET cobraCmd == ctxValue(ctx, "cobraCmdCtxKey{}")
    IN IF cobraCmd # <<>> THEN cobraCmd[1] ELSE NoCmd

\* the value ValueToConfirm returns, and what standard input can hold
WantInput == <<"y", "e", "s">>
Stdins ==
    { <<"y", "e", "s", "\n">>, <<"y", "e", "s", "\r", "\n">>,
      <<"n", "o", "\n">>, <<"y", "e", "s">> }

\* bufio.Reader.ReadString('\n'): the text up to and with the first newline,
\* an error when the input ends before one
ReadString(stdin) ==
    LET nl == {i \in 1..Len(stdin) : stdin[i] = "\n"}
    IN IF nl = {} THEN [err |-> "EOF", line |-> stdin]
       ELSE [err |-> "nil",
             line |-> SubSeq(stdin, 1, CHOOSE i \in nl : \A j \in nl : i <= j)]

\* a trim that removes nothing
TrimRightNothing(s, cutset) == s

RECURSIVE TrimRight(_, _)
\* strings.TrimRight(s, cutset)
TrimRight(s, cutset) ==
    IF s # <<>> /\ s[Len(s)] \in cutset THEN TrimRight(SubSeq(s, 1, Len(s) - 1), cutset)
    ELSE s

\* one thing an execution does
Ev(ev, name, arg) == [ev |-> ev, name |-> name, arg |-> arg]

\* a process on its way through the hooks
Proc(err, ex, tr, d) == [err |-> err, exited |-> ex, trace |-> tr, dest |-> d]
Into(pr, evs) == [pr EXCEPT !.trace = @ \o evs]
Fail(pr, evs, err) == [pr EXCEPT !.trace = @ \o evs, !.err = err]

\* pflag.FlagSet.Changed: FALSE for a flag the set does not hold
FlagChanged(t, name, supplied) ==
    (\E i \in 1..Len(t.Flags) : t.Flags[i].Name = name) /\ supplied

\* the body of the closure a decorator installed, run once the closure it
\* wrapped has returned nil; oldNil: it wrapped no closure; o: what the
\* configuration resolution of the hook yields on the present inputs
HookBody(hook, oldNil, t, name, i, o, pr) ==
    CASE hook = "ParsingConfig" ->
           IF o.result = "nil"
           THEN [Into(pr, <<Ev("hook", hook, "")>>) EXCEPT !.dest = o.dest]
           ELSE Fail(pr, <<Ev("hook", hook, "")>>, Errorf(o.result, "", NoErr))
      [] hook = "Deprecated" ->
           IF oldNil \/ FlagChanged(t, "json", i.json)
           THEN Into(pr, <<Ev("hook", hook, "")>>)
           ELSE Into(pr, <<Ev("hook", hook, ""), Ev("print", "deprecated", name)>>)
      [] hook = "Args" ->
           IF i.argsErr
           THEN Fail(pr, <<Ev("hook", hook, ""), Ev("call", "Args", "")>>,
                     Errorf("args", "", NoErr))
           ELSE Into(pr, <<Ev("hook", hook, ""), Ev("call", "Args", "")>>)
      [] hook = "Confirm" ->
           IF i.force \/ i.yolo THEN Into(pr, <<Ev("hook", hook, "")>>)
           ELSE LET r   == ReadString(i.stdin)
                    evs == <<Ev("hook", hook, ""), Ev("call", "ValueToConfirm", i.ctx),
                             Ev("read", "stdin", "")>>
                IN IF r.err # "nil"
                     THEN Fail(pr, evs, Errorf("failed to read user input", "", 
                                               Errorf(r.err, "", NoErr)))
                   ELSE IF WantInput # TrimRight(r.line, {"\r", "\n"})
                     THEN Fail(pr, evs, Errorf("action aborted", "", NoErr))
                   ELSE Into(pr, evs)
      [] hook = "Prompt" ->
           IF i.force \/ i.yolo THEN Into(pr, <<Ev("hook", hook, "")>>)
           ELSE IF i.skipPrompt
             THEN Into(pr, <<Ev("hook", hook, ""), Ev("call", "SkipPrompt", "")>>)
           ELSE IF i.promptOk
             THEN Into(pr, <<Ev("hook", hook, ""), Ev("call", "SkipPrompt", ""),
                             Ev("call", "Prompt", "")>>)
           ELSE [Into(pr, <<Ev("hook", hook, ""), Ev("call", "SkipPrompt", ""),
                            Ev("call", "Prompt", ""), Ev("print", "message", ""),
                            Ev("exit", "1", "")>>) EXCEPT !.exited = TRUE]
      [] hook = "Execute" ->
           IF i.executeErr
           THEN Fail(pr, <<Ev("hook", hook, ""), Ev("call", "Execute", i.ctx)>>,
                     Errorf("execute", "", NoErr))
           ELSE Into(pr, <<Ev("hook", hook, ""), Ev("call", "Execute", i.ctx)>>)

RECURSIVE CallHook(_, _, _, _, _, _, _)
\* a call that goes on after the wrapped closure ended the process
CallHookOn(hooks, n, t, name, i, o, pr) ==
    IF n = 1 THEN HookBody(hooks[n], TRUE, t, name, i, o, pr)
    ELSE LET old == CallHook(hooks, n - 1, t, name, i, o, pr)
         IN IF old.err # NoErr THEN old
            ELSE HookBody(hooks[n], FALSE, t, name, i, o, old)

\* a call of the closure that is n-th of the chain hooks, oldest first: it
\* calls the closure it wrapped, returns its error, and else runs its body
CallHook(hooks, n, t, name, i, o, pr) ==
    IF n = 1 THEN HookBody(hooks[n], TRUE, t, name, i, o, pr)
    ELSE LET old == CallHook(hooks, n - 1, t, name, i, o, pr)
         IN IF old.err # NoErr \/ old.exited THEN old
            ELSE HookBody(hooks[n], FALSE, t, name, i, o, old)

\* cobra.Command.execute of the command t: nothing when t has no RunE, else
\* PreRunE when set and, when it returned nil, RunE
execute(t, name, i, o, d) ==
    LET start == Proc(NoErr, FALSE, <<>>, d)
        pre   == IF t.PreRunE = <<>> THEN start
                 ELSE CallHook(t.PreRunE, Len(t.PreRunE), t, name, i, o, start)
    IN IF t.RunE = <<>> THEN Into(start, <<Ev("print", "help", name)>>)
       ELSE IF pre.err # NoErr \/ pre.exited THEN pre
       ELSE CallHook(t.RunE, Len(t.RunE), t, name, i, o, pre)

\* the command an execution selects: the root (0) or its k-th child
Target(k) == IF k = 0 THEN cmd ELSE cmd.Commands[k]

\* cmd.Name(), after the parent's name when the command has a parent
QualifiedName(k) == IF k = 0 THEN cmd.Use ELSE cmd.Use \o " " \o cmd.Commands[k].Use

\* the executions of the built command: a flag is supplied when the command
\* has it, an answer of the value varies when a hook asks for it
InputsOf(k) ==
    LET t       == Target(k)
        has(n)  == \E j \in 1..Len(t.Flags) : t.Flags[j].Name = n
        pre(h)  == \E j \in 1..Len(t.PreRunE) : t.PreRunE[j] = h
        run(h)  == \E j \in 1..Len(t.RunE) : t.RunE[j] = h
        when(b) == IF b THEN BOOLEAN ELSE {FALSE}
    IN [target : {k},
        ctx : IF run("Execute") \/ run("Confirm") THEN Contexts
              ELSE {"context.Background()"},
        force : when(has("force")), yolo : when(has("force")), json : when(has("json")),
        stdin : IF run("Confirm") THEN Stdins ELSE {<<>>},
        promptOk : when(run("Prompt")), skipPrompt : when(run("Prompt")),
        argsErr : when(pre("Args")), executeErr : when(run("Execute"))]

Inputs == UNION { InputsOf(k) : k \in 0..Len(cmd.Commands) }

\* cmd.ExecuteContext(ctx) on the command the last build returned
Execute(i) ==
    /\ constructed /\ ~cmd.isNil /\ ~ran
    /\ \E o \in {ParsingConfigPreRunEOutcome} :
       \E pr \in {execute(Target(i.target), QualifiedName(i.target), i, o, dest)} :
          /\ ran' = TRUE
          /\ input' = i
          /\ trace' = pr.trace
          /\ runErr' = pr.err
          /\ exited' = pr.exited
          /\ dest' = pr.dest
    /\ UNCHANGED <<env, files, cfg, flagArgs, aliased, flagTarget, result, did,
                   readPath, ops, prev, pipeVars, flagVars>>

RunIdle ==
    /\ ran = FALSE
    /\ input = NoInput
    /\ trace = <<>>
    /\ runErr = NoErr
    /\ exited = FALSE

-----------------------------------------------------------------------------
(* BuildFlags: the flag descriptors of a struct, from its field tags.      *)

\* a struct tag: tag name -> value, for the names the tag holds
NoTags == [k \in {} |-> ""]

\* reflect.StructTag.Lookup, and hasTag
Lookup(tag, key) ==
    [ok |-> key \in DOMAIN tag, v |-> IF key \in DOMAIN tag THEN tag[key] ELSE ""]
hasTag(tag, key) == Lookup(tag, key).ok

\* a parse that takes every text for a boolean
ParseBoolLenient(v) ==
    [ok |-> TRUE, b |-> v \in {"1", "t", "T", "TRUE", "true", "True"}]

\* strconv.ParseBool
ParseBool(v) ==
    IF v \in {"1", "t", "T", "TRUE", "true", "True"} THEN [ok |-> TRUE, b |-> TRUE]
    ELSE IF v \in {"0", "f", "F", "FALSE", "false", "False"} THEN [ok |-> TRUE, b |-> FALSE]
    ELSE [ok |-> FALSE, b |-> FALSE]

\* a field of a struct type: name, tag, kind of its type, fields when the
\* kind is struct
StructField(name, tag, kind, fields) ==
    [Name |-> name, Tag |-> tag, Kind |-> kind, Fields |-> fields]

\* buildFlag(val, sf): val is the field at the index path addr
buildFlag(addr, sf) ==
    LET long       == Lookup(sf.Tag, "long").v
        short      == Lookup(sf.Tag, "short").v
        required   == ParseBool(Lookup(sf.Tag, "required").v)
        persistent == ParseBool(Lookup(sf.Tag, "persistent").v)
        usage      == Lookup(sf.Tag, "usage").v
        hidden     == ParseBool(Lookup(sf.Tag, "hidden").v)
    IN IF hasTag(sf.Tag, "required") /\ ~required.ok
         THEN [err |-> "error parsing tag \"required\"", flag |-> <<>>]
       ELSE IF hasTag(sf.Tag, "persistent") /\ ~persistent.ok
         THEN [err |-> "error parsing tag \"persistent\"", flag |-> <<>>]
       ELSE IF hasTag(sf.Tag, "hidden") /\ ~hidden.ok
         THEN [err |-> "error parsing tag \"hidden\"", flag |-> <<>>]
       ELSE [err |-> "",
             flag |-> <<Flag(long, short, usage,
                             hasTag(sf.Tag, "required") /\ required.b,
                             hasTag(sf.Tag, "persistent") /\ persistent.b,
                             [type |-> "*" \o sf.Kind, addr |-> addr],
                             hasTag(sf.Tag, "hidden") /\ hidden.b)>>]

\* what BuildFlags leaves behind: the Flags it returned, or the panic
Returned(flags) == [done |-> TRUE, panic |-> "", flags |-> flags]
Panic(msg)      == [done |-> TRUE, panic |-> msg, flags |-> <<>>]
NoOut           == [done |-> FALSE, panic |-> "", flags |-> <<>>]

RECURSIVE buildFlagsRecursive(_, _)
RECURSIVE buildFlagsLoop(_, _, _, _)

\* the loop of buildFlagsRecursive over the fields from index i on
buildFlagsLoop(fields, addr, i, flags) ==
    IF i > Len(fields) THEN Returned(flags)
    ELSE
      LET field == fields[i]
          at    == Append(addr, i)
      IN IF hasTag(field.Tag, "short") \/ hasTag(field.Tag, "long")
           THEN LET b == buildFlag(at, field)
                IN IF b.err # "" THEN Panic(b.err)
                   ELSE buildFlagsLoop(fields, addr, i + 1, flags \o b.flag)
         ELSE IF field.Kind = "struct"
           THEN LET embeddedFlags == buildFlagsRecursive(field.Fields, at)
                IN IF embeddedFlags.panic # "" THEN embeddedFlags
                   ELSE buildFlagsLoop(fields, addr, i + 1, flags \o embeddedFlags.flags)
         ELSE buildFlagsLoop(fields, addr, i + 1, flags)

\* a builder that does not look into nested structs
buildFlagsFlat(fields, addr) ==
    buildFlagsLoop([i \in 1..Len(fields) |->
                       IF fields[i].Kind = "struct" /\ ~hasTag(fields[i].Tag, "long")
                          /\ ~hasTag(fields[i].Tag, "short")
                       THEN [fields[i] EXCEPT !.Fields = <<>>] ELSE fields[i]],
                   addr, 1, <<>>)

\* buildFlagsRecursive(v): v is the struct at the index path addr
buildFlagsRecursive(fields, addr) == buildFlagsLoop(fields, addr, 1, <<>>)

\* BuildFlags(obj)
BuildFlags(o) ==
    IF o.Kind # "ptr" THEN Panic("expected a pointer, got " \o o.Kind)
    ELSE IF o.Elem.Kind # "struct" THEN Panic("expected a struct, got " \o o.Elem.Kind)
    ELSE buildFlagsRecursive(o.Elem.Fields, <<>>)

\* fields a struct handed to BuildFlags declares, at most
MaxFields == 2

\* fields without fields of their own: tagged with long, with short alone,
\* with every boolean tag, with boolean tags that do not parse, with a long
\* tag whose value is empty, not tagged
LeafFields ==
    { StructField("Path", ("long" :> "path") @@ ("usage" :> "the path"), "string", <<>>),
      StructField("Verbose", ("short" :> "v"), "bool", <<>>),
      StructField("Level", ("long" :> "level") @@ ("short" :> "l") @@ ("required" :> "true")
                           @@ ("persistent" :> "1") @@ ("hidden" :> "F"), "int", <<>>),
      StructField("Bad", ("long" :> "bad") @@ ("required" :> "yes"), "int", <<>>),
      StructField("Worse", ("long" :> "worse") @@ ("persistent" :> "maybe")
                           @@ ("hidden" :> ""), "int", <<>>),
      StructField("Shy", ("short" :> "s") @@ ("hidden" :> "no"), "bool", <<>>),
      StructField("Blank", ("long" :> ""), "string", <<>>),
      StructField("Count", NoTags, "int", <<>>),
      StructField("Next", NoTags, "ptr", <<>>) }

\* a field of struct kind; the Connectors struct of the README
Nested(name, tag, fields) == StructField(name, tag, "struct", fields)
Connectors ==
    Nested("Connectors", NoTags,
           << StructField("Path", ("long" :> "connectors.path"), "string", <<>>) >>)

StructFields ==
    { Connectors,
      Nested("Empty", NoTags, <<>>),
      Nested("Tagged", ("long" :> "tagged"),
             << StructField("Inner", ("long" :> "inner"), "int", <<>>) >>),
      Nested("ConduitConfig", NoTags,
             << StructField("ConduitCfgPath", ("long" :> "config.path"), "string", <<>>),
                Connectors,
                StructField("Skipped", NoTags, "int", <<>>),
                StructField("Dev", ("short" :> "d"), "bool", <<>>) >>),
      Nested("Broken", NoTags,
             << StructField("Fine", ("long" :> "fine"), "int", <<>>),
                Nested("Deep", NoTags,
                       << StructField("Off", ("long" :> "off") @@ ("hidden" :> "nope"),
                                      "bool", <<>>) >>) >>) }

Fields == LeafFields \cup StructFields

\* what BuildFlags can be handed: a pointer to a struct, the nil interface,
\* a struct, a pointer to an int, a nil pointer
Value(kind, elemKind, fields) ==
    [Kind |-> kind, Elem |-> [Kind |-> elemKind, Fields |-> fields]]
Objs ==
    { Value("ptr", "struct", fs) : fs \in UNION { [1..n -> Fields] : n \in 0..MaxFields } }
    \cup { Value("invalid", "invalid", <<>>), Value("struct", "invalid", <<>>),
           Value("ptr", "int", <<>>), Value("ptr", "invalid", <<>>) }

\* the text of a tag's value, character by character, as viper takes a key
Chars(str) ==
    CASE str = "path" -> <<"p","a","t","h">>
      [] str = "v" -> <<"v">>
      [] str = "level" -> <<"l","e","v","e","l">>
      [] str = "l" -> <<"l">>
      [] str = "bad" -> <<"b","a","d">>
      [] str = "worse" -> <<"w","o","r","s","e">>
      [] str = "s" -> <<"s">>
      [] str = "connectors.path" -> <<"c","o","n","n","e","c","t","o","r","s",".","p","a","t","h">>
      [] str = "tagged" -> <<"t","a","g","g","e","d">>
      [] str = "inner" -> <<"i","n","n","e","r">>
      [] str = "config.path" -> <<"c","o","n","f","i","g",".","p","a","t","h">>
      [] str = "d" -> <<"d">>
      [] str = "fine" -> <<"f","i","n","e">>
      [] str = "off" -> <<"o","f","f">>
      [] str = "" -> <<>>

RECURSIVE Reflected(_)
\* the struct a list of fields declares, as setDefaults reflects on it: every
\* field is exported, a pointer field is nil, the other values are zero
Reflected(fields) ==
    [kind |-> "struct", type |-> "struct", nil |-> FALSE, val |->
       [i \in 1..Len(fields) |->
          [name |-> fields[i].Name,
           long |-> Chars(Lookup(fields[i].Tag, "long").v),
           short |-> Chars(Lookup(fields[i].Tag, "short").v),
           exported |-> TRUE,
           value |-> IF fields[i].Kind = "struct" THEN Reflected(fields[i].Fields)
                     ELSE [kind |-> fields[i].Kind, type |-> fields[i].Kind,
                           nil |-> fields[i].Kind = "ptr", val |-> 0]]]]

\* the keys setDefaults seeds a new viper with, for the struct o points to
SeededKeys(o) ==
    DOMAIN setDefaults(NewViper,
                       [kind |-> "ptr", type |-> "*struct", nil |-> FALSE,
                        val |-> Reflected(o.Elem.Fields)]).defaults

\* the zero Flag
NoFlag == Flag("", "", "", FALSE, FALSE, [type |-> "nil", addr |-> <<>>], FALSE)

\* a value of Flag.Default: nil, or a value of some type
NilDefault   == [set |-> FALSE, str |-> ""]
SomeDefault(str) == [set |-> TRUE, str |-> str]

RECURSIVE GetFlagFrom(_, _, _)
\* the loop of GetFlag over the flags from index i on
GetFlagFrom(f, long, i) ==
    IF i > Len(f) THEN [flag |-> NoFlag, ok |-> FALSE]
    ELSE IF f[i].Long = long THEN [flag |-> f[i], ok |-> TRUE]
    ELSE GetFlagFrom(f, long, i + 1)

\* Flags.GetFlag(long)
GetFlag(f, long) == GetFlagFrom(f, long, 1)

RECURSIVE FlagsSetDefaultFrom(_, _, _, _)
\* the loop of Flags.SetDefault over the flags from index i on: f is the
\* backing array the receiver shares with the caller's slice
FlagsSetDefaultFrom(f, long, val, i) ==
    IF i > Len(f) THEN [f |-> f, ok |-> FALSE]
    ELSE IF f[i].Long = long
         THEN [f |-> [f EXCEPT ![i] = [f[i] EXCEPT !.Default = val]], ok |-> TRUE]
    ELSE FlagsSetDefaultFrom(f, long, val, i + 1)

\* a SetDefault that goes on after the first match
FlagsSetDefaultEvery(f, long, val) ==
    [f  |-> [i \in 1..Len(f) |->
                IF f[i].Long = long THEN [f[i] EXCEPT !.Default = val] ELSE f[i]],
     ok |-> \E i \in 1..Len(f) : f[i].Long = long]

\* Flags.SetDefault(long, val)
FlagsSetDefault(f, long, val) == FlagsSetDefaultFrom(f, long, val, 1)

\* calls of GetFlag and SetDefault on one list of Flags, at most
MaxRegs == 1

\* the long names asked for: one that fields carry, the empty one, one that
\* no field carries; the defaults handed to SetDefault
AskedLongs   == {"path", "", "nope"}
AskedDefaults == {SomeDefault("/etc/conduit"), NilDefault}

NoRegOp ==
    [n |-> 0, op |-> "none", long |-> "", val |-> NilDefault, before |-> <<>>,
     flag |-> NoFlag, ok |-> FALSE]

\* BuildFlags(obj) is called
CallBuildFlags ==
    /\ ~out.done
    /\ out' = BuildFlags(obj)
    /\ registry' = out'.flags
    /\ regOp' = NoRegOp
    /\ UNCHANGED <<obj, cfgVars, pipeVars, runVars>>

\* flags.GetFlag(long) is called on the Flags BuildFlags returned
CallGetFlag(long) ==
    /\ out.done /\ out.panic = "" /\ regOp.n < MaxRegs
    /\ \E r \in {GetFlag(registry, long)} :
          regOp' = [n |-> regOp.n + 1, op |-> "GetFlag", long |-> long, val |-> NilDefault,
                    before |-> registry, flag |-> r.flag, ok |-> r.ok]
    /\ UNCHANGED <<obj, out, registry, cfgVars, pipeVars, runVars>>

\* flags.SetDefault(long, val) is called on the Flags BuildFlags returned
CallSetDefault(long, val) ==
    /\ out.done /\ out.panic = "" /\ regOp.n < MaxRegs
    /\ \E r \in {FlagsSetDefault(registry, long, val)} :
          /\ registry' = r.f
          /\ regOp' = [n |-> regOp.n + 1, op |-> "SetDefault", long |-> long, val |-> val,
                       before |-> registry, flag |-> NoFlag, ok |-> r.ok]
    /\ UNCHANGED <<obj, out, cfgVars, pipeVars, runVars>>

FlagsIdle ==
    /\ obj = Value("invalid", "invalid", <<>>) /\ out = NoOut
    /\ registry = <<>> /\ regOp = NoRegOp

-----------------------------------------------------------------------------
(* The pipeline's variables while only configurations are resolved.        *)

PipeIdle ==
    /\ Decorators = DefaultDecorators
    /\ optsLeft = 0
    /\ c = UsageOnly
    /\ cmd = NoCmd
    /\ buildErr = NoErr
    /\ applied = <<>>
    /\ calls = <<>>
    /\ constructed = FALSE
    /\ lastOpt = NoOpt
    /\ defaultDecorators = DefaultDecorators
    /\ otherDecorators = DefaultDecorators
    /\ shared = NewShares

-----------------------------------------------------------------------------
(* Resolutions of the test command's configuration, for every environment, *)
(* file system, command line and shape of Config.Parsed.                   *)

\* the default the Flags() of the test command seeds each flag with:
\* flags.SetDefault("heat-level", c.Cfg.HeatLevel), and none for the others
FlagDefault(key) == IF key = KeyHeatLevel THEN DefaultHeat ELSE 0

\* the target of each flag once the command line is parsed: registration
\* writes the flag's default, the parse writes a supplied value
ParsedTargets(args) ==
    [f \in FieldNames |->
        LET key == CHOOSE k \in Keys : FlagPtr(k) = f
        IN IF args[key].supplied THEN args[key].val ELSE FlagDefault(key)]

InitCfg ==
    /\ env \in [EnvNames -> {Unset, Empty, EnvHeat, CustomPath}]
    /\ \A n \in ValueEnvNames : env[n] \in {Unset, EnvHeat}
    /\ env[Cook_CONFIG_PATH] \in {Unset, Empty, CustomPath}
    /\ env[COOK_CONFIG_PATH] \in {Unset, CustomPath}
    /\ files \in [Paths -> FileStates(FileHeat) \cup FileStates(CustomHeat)]
    /\ files[StaticPath] \in FileStates(FileHeat)
    /\ files[CustomPath] \in FileStates(CustomHeat)
    /\ files[CustomPath].state \in {"missing", "malformed", "ok"}
    /\ files[CustomPath].state = "ok" => DOMAIN files[CustomPath].content = {KeyHeatLevel}
    /\ \E shape \in ParsedShapes :
         cfg = [EnvPrefix |-> EnvPrefix, Parsed |-> shape,
                DefaultValues |-> newCookingConfig, Path |-> StaticPath]
    /\ flagArgs \in [Keys -> {[supplied |-> FALSE, val |-> 0],
                              [supplied |-> TRUE, val |-> FlagHeat]}]
    /\ aliased \in BOOLEAN
    /\ flagTarget = IF aliased THEN [f \in FieldNames |-> 0] ELSE ParsedTargets(flagArgs)
    /\ dest = IF aliased THEN ParsedTargets(flagArgs) ELSE [f \in FieldNames |-> 0]
    /\ result = "none"
    /\ did = {}
    /\ readPath = NoPath
    /\ ops = <<>>
    /\ prev = dest
    /\ PipeIdle
    /\ FlagsIdle
    /\ RunIdle

NextCfg == ParseConfig \/ ParsingConfigPreRunE

SpecCfg == InitCfg /\ [][NextCfg]_vars


-----------------------------------------------------------------------------
(* New(opts...) followed by builds of command values.                      *)

\* the file system of a build: the config file of the command is there, or
\* no file is
BuildFiles ==
    { [p \in Paths |-> [state |-> "missing", content |-> NoContent]],
      [p \in Paths |-> IF p = StaticPath THEN [state |-> "ok", content |-> NoContent]
                       ELSE [state |-> "missing", content |-> NoContent]] }

CfgIdle ==
    /\ env = [n \in EnvNames |-> Unset]
    /\ files \in BuildFiles
    /\ cfg = [EnvPrefix |-> EnvPrefix,
              Parsed |-> [kind |-> "ptr", type |-> "*cookingConfig", elem |-> "cookingConfig"],
              DefaultValues |-> newCookingConfig, Path |-> StaticPath]
    /\ flagArgs = [k \in Keys |-> [supplied |-> FALSE, val |-> 0]]
    /\ aliased = TRUE
    /\ flagTarget = [f \in FieldNames |-> 0]
    /\ dest = ParsedTargets(flagArgs)
    /\ result = "none"
    /\ did = {}
    /\ readPath = NoPath
    /\ ops = <<>>
    /\ prev = dest

\* New: e.Decorators is a copy of DefaultDecorators, the options follow
InitPipe ==
    /\ Decorators = DefaultDecorators
    /\ optsLeft = MaxOpts
    /\ c = UsageOnly
    /\ cmd = NoCmd
    /\ buildErr = NoErr
    /\ applied = <<>>
    /\ calls = <<>>
    /\ constructed = FALSE
    /\ lastOpt = NoOpt
    /\ defaultDecorators = DefaultDecorators
    /\ otherDecorators = DefaultDecorators
    /\ shared = NewShares
    /\ CfgIdle
    /\ FlagsIdle
    /\ RunIdle

NextPipe ==
    \/ \E decorators \in ArgLists : OptWithDecorators(decorators)
    \/ OptWithoutDefaultDecorators
    \/ \E cv \in Commands : Build(cv)
    \/ \E i \in Inputs : Execute(i)

SpecPipe == InitPipe /\ [][NextPipe]_vars

-----------------------------------------------------------------------------
(* BuildFlags on every value of Objs, then GetFlag and SetDefault on the   *)
(* Flags it returned.                                                      *)

InitFlags ==
    /\ obj \in Objs
    /\ out = NoOut
    /\ registry = <<>>
    /\ regOp = NoRegOp
    /\ CfgIdle
    /\ PipeIdle
    /\ RunIdle

NextFlags ==
    \/ CallBuildFlags
    \/ \E long \in AskedLongs : CallGetFlag(long)
    \/ \E long \in AskedLongs, val \in AskedDefaults : CallSetDefault(long, val)

SpecFlags == InitFlags /\ [][NextFlags]_vars

-----------------------------------------------------------------------------
(* Properties of the configuration resolver, stated on the inputs alone.   *)

LastOp == IF ops = <<>> THEN "none" ELSE ops[Len(ops)]

\* the destination is a pointer to a struct of the defaults' type
ShapeOk == cfg.Parsed.kind = "ptr" /\ cfg.Parsed.elem = cfg.DefaultValues.type

\* the number the environment gives a key: HEAT_LEVEL=33 in the tests
EnvHeatValue == 33

\* the variable {EnvPrefix}_{KEY} of a field, '.' and '-' of the key as '_'
EnvVarOf(f) == IF f = "HeatLevel" THEN COOK_HEAT_LEVEL ELSE COOK_PORT
LongOf(f)   == IF f = "HeatLevel" THEN KeyHeatLevel ELSE KeyPort
DefaultOf(f) == IF f = "HeatLevel" THEN DefaultHeat ELSE 0

EnvSet(n) == env[n] # Unset /\ env[n] # Empty

\* the file the resolver is to read
ChosenPath == IF EnvSet(Cook_CONFIG_PATH) THEN env[Cook_CONFIG_PATH] ELSE StaticPath

FlagSets(f) == flagArgs[LongOf(f)].supplied
EnvSets(f)  == EnvSet(EnvVarOf(f))
FileSets(f) == /\ files[ChosenPath].state = "ok"
               /\ LongOf(f) \in DOMAIN files[ChosenPath].content

\* the value of the highest source that sets the field's key
Highest(f) ==
    IF FlagSets(f) THEN flagArgs[LongOf(f)].val
    ELSE IF EnvSets(f) THEN EnvHeatValue
    ELSE IF FileSets(f) THEN files[ChosenPath].content[LongOf(f)]
    ELSE DefaultOf(f)

Disjoint ==
    \A f \in FieldNames :
        Cardinality({s \in {"flag", "env", "file"} :
                        \/ s = "flag" /\ FlagSets(f)
                        \/ s = "env" /\ EnvSets(f)
                        \/ s = "file" /\ FileSets(f)}) <= 1

\* C2: when file, environment and supplied flags set disjoint keys, the
\* configuration ParseConfig resolves is the union of the sources: each key
\* has the value of the one source that sets it, and a key none of them sets
\* has the value of the defaults struct (heat-level: 5).
C2_DisjointUnion ==
    (LastOp = "ParseConfig" /\ result = "nil" /\ Disjoint)
        => \A f \in FieldNames :
              /\ FlagSets(f) => dest[f] = flagArgs[LongOf(f)].val
              /\ EnvSets(f) => dest[f] = EnvHeatValue
              /\ FileSets(f) => dest[f] = files[ChosenPath].content[LongOf(f)]
              /\ (~FlagSets(f) /\ ~EnvSets(f) /\ ~FileSets(f)) => dest[f] = DefaultOf(f)

\* heat-level comes from the defaults alone and port from the file alone
C2_Witness ==
    /\ LastOp = "ParseConfig" /\ result = "nil" /\ Disjoint
    /\ ~FlagSets("HeatLevel") /\ ~EnvSets("HeatLevel") /\ ~FileSets("HeatLevel")
    /\ dest["HeatLevel"] = DefaultHeat
    /\ FileSets("Port") /\ dest["Port"] = FileHeat

\* C3: in every code path that resolves a configuration, the variable
\* {PREFIX}_HEAT_LEVEL sets the key heat-level: with the flag not supplied, a
\* successful resolution leaves the variable's value in the destination.
C3_EnvDashKey ==
    (LastOp \in {"ParseConfig", "PreRunE"} /\ result = "nil"
       /\ ~FlagSets("HeatLevel") /\ EnvSets("HeatLevel"))
        => dest["HeatLevel"] = EnvHeatValue

C5_FileLoading ==
    (LastOp \in {"ParseConfig", "PreRunE"} /\ "readFile" \in did)
        => /\ files[readPath].state = "missing" => result = "nil"
           /\ files[readPath].state \in {"malformed", "unreadable"} => result # "nil"

\* C6: when Parsed is no pointer (nil included) or points to another type
\* than DefaultValues, ParseConfig returns an error, does none of the merge
\* steps and leaves the destination as it was.
C6_ShapeFirst ==
    (LastOp = "ParseConfig" /\ ~ShapeOk)
        => /\ result \in {"parsed must be a pointer",
                          "parsed and defaultValues must be the same type"}
           /\ did = {}
           /\ dest = prev

\* C7: a ParseConfig that follows a ParseConfig with the same inputs leaves
\* the destination as the first one left it, also when the flags point into
\* the destination.
C7_Idempotent ==
    (Len(ops) >= 2 /\ ops[Len(ops)] = "ParseConfig" /\ ops[Len(ops) - 1] = "ParseConfig")
        => dest = prev

\* two ParseConfig runs on a destination the flags point into, the first of
\* which changed the destination
C7_Witness ==
    /\ ops = <<"ParseConfig", "ParseConfig">> /\ result = "nil" /\ aliased
    /\ FlagSets("Port") /\ ~FlagSets("HeatLevel") /\ EnvSets("HeatLevel")
    /\ dest["HeatLevel"] = EnvHeatValue /\ dest["Port"] = FlagHeat

-----------------------------------------------------------------------------
(* Properties of the pipeline, stated on the list and the command value.   *)

Panicked == buildErr # NoErr /\ buildErr[1].msg = "panic"

\* the decorator d returns an error for a command value without children
FailsOn(d, cv) ==
    \/ /\ d.kind = "CommandWithFlagsDecorator"
       /\ "Flags" \in cv.caps
       /\ \E k \in 1..Len(cv.flags) : cv.flags[k].Ptr \notin SupportedPtrTypes
    \/ d.kind = "myDecorator" /\ d.inst = "fails"

\* the decorator at index i of the list returns an error for the value c
FailsAt(i) ==
    \/ FailsOn(Decorators[i], c)
    \/ /\ Decorators[i].kind = "CommandWithSubCommandsDecorator"
       /\ "SubCommands" \in c.caps
       /\ \E k \in 1..Len(c.subs) : \E j \in 1..Len(Decorators) :
              FailsOn(Decorators[j], c.subs[k])

FailIdx == {i \in 1..Len(Decorators) : FailsAt(i)}
FirstFail == CHOOSE i \in FailIdx : \A j \in FailIdx : i <= j

\* the message of the error the decorator at index i returns
OriginalMsg(i) ==
    IF FailsOn(Decorators[i], c)
    THEN (IF Decorators[i].kind = "myDecorator" THEN "custom decorator failed"
          ELSE "unexpected flag value type")
    ELSE "failed to build subcommand"

\* C8: BuildCobraCommand applies the decorators in list order and stops at
\* the first one that returns an error: later decorators are not applied, the
\* returned command is nil, and the returned error names the type of the
\* failing decorator and wraps the error it returned. When no decorator
\* fails, all are applied in order and a command is returned without error.
C8_FailFast ==
    (constructed /\ ~Panicked) =>
        IF FailIdx = {}
        THEN /\ buildErr = NoErr
             /\ ~cmd.isNil
             /\ applied = [i \in 1..Len(Decorators) |-> i]
        ELSE /\ applied = [i \in 1..FirstFail |-> i]
             /\ cmd = NoCmd
             /\ Len(buildErr) >= 2
             /\ buildErr[1] = [msg |-> "failed to decorate command with",
                               arg |-> TypeString(Decorators[FirstFail])]
             /\ buildErr[2].msg = OriginalMsg(FirstFail)

\* the flags decorator, third of the default list, fails on a flag of type
\* *uint: nine decorators after it are not applied
C8_Witness ==
    /\ constructed /\ ~Panicked /\ Decorators = DefaultDecorators
    /\ FailIdx # {} /\ FirstFail = 3
    /\ applied = <<1, 2, 3>> /\ cmd = NoCmd
    /\ buildErr[1].arg = "ecdysis.CommandWithFlagsDecorator"
    /\ buildErr[2] = [msg |-> "unexpected flag value type", arg |-> "*uint"]

\* the default decorators whose optional interface c does not implement
Unimplemented ==
    {i \in 1..Len(DefaultDecorators) : Capability(DefaultDecorators[i].kind) \notin c.caps}

Range(seq) == {seq[i] : i \in 1..Len(seq)}

\* C9: a default decorator whose optional interface the command value does
\* not implement changes nothing and returns no error, on a fresh command and
\* on the command built so far; a value that implements Usage alone builds to
\* a command with Use set and nothing else; without Execute no run hook runs
\* Execute.
C9_OptIn ==
    /\ \A i \in Unimplemented :
          \A x \in {cobraCommand(c.usage)} \cup (IF cmd.isNil THEN {} ELSE {cmd}) :
              Decorate(DefaultDecorators[i], Decorators, x, c) = Done(NoErr, FALSE, x, <<>>)
    /\ (constructed /\ c.caps = {} /\ Decorators = DefaultDecorators)
          => /\ buildErr = NoErr
             /\ cmd = cobraCommand(c.usage)
             /\ calls = <<Call("Usage", "")>>
    /\ (constructed /\ ~cmd.isNil /\ "Execute" \notin c.caps)
          => "Execute" \notin Range(cmd.RunE)
    /\ (constructed /\ ~cmd.isNil /\ "ParsingConfig" \notin c.caps)
          => "ParsingConfig" \notin Range(cmd.PreRunE)

\* the default pipeline built a value that implements Usage alone
C9_Witness ==
    /\ constructed /\ c = UsageOnly /\ Decorators = DefaultDecorators
    /\ applied = [i \in 1..12 |-> i]
    /\ ~cmd.isNil /\ cmd.Use = "mock" /\ cmd.RunE = <<>> /\ cmd.Flags = <<>>

\* the first entry of the list of the kind of d, pointers looked through
SameKind(list, d) == {i \in 1..Len(list) : list[i].kind = d.kind}

ReplaceOrAppend(list, d) ==
    IF SameKind(list, d) = {} THEN list \o <<d>>
    ELSE LET first == CHOOSE i \in SameKind(list, d) : \A j \in SameKind(list, d) : i <= j
         IN [j \in 1..Len(list) |-> IF j = first THEN d ELSE list[j]]

RECURSIVE ReplaceOrAppendAll(_, _)
ReplaceOrAppendAll(list, ds) ==
    IF ds = <<>> THEN list
    ELSE ReplaceOrAppendAll(ReplaceOrAppend(list, Head(ds)), Tail(ds))

\* C10: WithDecorators takes the supplied decorators in order; each one
\* replaces, at the same position, the first entry of the list whose kind is
\* its own (a pointer and a value of one struct type are one kind) and is
\* appended to the end when the list has no such entry; the other entries
\* keep their place.
C10_ReplaceOrAppend ==
    lastOpt.kind = "WithDecorators"
        => /\ Decorators = ReplaceOrAppendAll(lastOpt.before, lastOpt.args)
           /\ Len(Decorators) >= Len(lastOpt.before)
           /\ \A i \in 1..Len(lastOpt.before) :
                 \/ Decorators[i] = lastOpt.before[i]
                 \/ \E k \in 1..Len(lastOpt.args) :
                       /\ lastOpt.args[k] = Decorators[i]
                       /\ lastOpt.args[k].kind = lastOpt.before[i].kind

\* a pointer to a logger decorator replaced the default logger decorator, a
\* value, in the first position, and a decorator of a new kind went last
C10_Witness ==
    /\ lastOpt.kind = "WithDecorators"
    /\ lastOpt.before = DefaultDecorators
    /\ lastOpt.args = << Decorator("CommandWithLoggerDecorator", TRUE, "ptrLogger"),
                         Decorator("myDecorator", FALSE, "ok") >>
    /\ Len(Decorators) = 13
    /\ Decorators[1] = Decorator("CommandWithLoggerDecorator", TRUE, "ptrLogger")
    /\ Decorators[13] = Decorator("myDecorator", FALSE, "ok")
    /\ \A i \in 2..12 : Decorators[i] = DefaultDecorators[i]

-----------------------------------------------------------------------------
(* Properties of the empty pipeline and of the flags decorator.            *)

\* C11: WithoutDefaultDecorators leaves an empty decorator list, and a build
\* on an empty list passes through: whatever the command value implements,
\* the command carries the usage string alone, Usage is the only method of
\* the value that was called, and no error is returned.
C11_PassThrough ==
    /\ lastOpt.kind = "WithoutDefaultDecorators" => Decorators = <<>>
    /\ (constructed /\ Decorators = <<>>)
          => /\ buildErr = NoErr
             /\ cmd = cobraCommand(c.usage)
             /\ calls = <<Call("Usage", "")>>
             /\ applied = <<>>

\* the empty pipeline built the tests' command, which implements docs,
\* aliases, flags and subcommands
C11_Witness ==
    /\ constructed /\ Decorators = <<>> /\ optsLeft = MaxOpts - 1
    /\ c = testCmd /\ c.caps # {}
    /\ ~cmd.isNil /\ cmd.Use = "cmd1" /\ cmd.Aliases = <<>> /\ cmd.Commands = <<>>

\* the indices of the flags decorator in the list
FlagsDecoratorAt == {i \in 1..Len(Decorators) : Decorators[i].kind = "CommandWithFlagsDecorator"}

\* the descriptors of c whose target is of no supported type
Unsupported == {k \in 1..Len(c.flags) : c.flags[k].Ptr \notin
                  { "*string", "*int", "*int8", "*int16", "*int32", "*int64",
                    "*float32", "*float64", "*bool", "*time.Duration", "*[]bool",
                    "*[]float32", "*[]float64", "*[]int32", "*[]int64", "*[]int",
                    "*[]string" }}

\* C19: when a descriptor of Flags() has a target of no supported type, the
\* build returns no command and an error that names the flags decorator and
\* wraps "unexpected flag value type", and no decorator after the flags
\* decorator is applied.
C19_UnsupportedType ==
    (constructed /\ "Flags" \in c.caps /\ Unsupported # {} /\ FlagsDecoratorAt # {})
        => LET i == CHOOSE j \in FlagsDecoratorAt : \A k \in FlagsDecoratorAt : j <= k
           IN /\ cmd = NoCmd
              /\ buildErr # NoErr
              /\ buildErr[1] = [msg |-> "failed to decorate command with",
                                arg |-> "ecdysis.CommandWithFlagsDecorator"]
              /\ buildErr[2].msg = "unexpected flag value type"
              /\ \A j \in 1..Len(applied) : applied[j] <= i
              /\ \A j \in (i + 1)..Len(Decorators) : j \notin Range(applied)

\* a value with docs, args and execute besides a flag of type *uint: the
\* docs, args and execute decorators were not applied
C19_Witness ==
    /\ constructed /\ c.caps = {"Flags", "Docs", "Args", "Execute"} /\ Unsupported = {2}
    /\ Len(Decorators) = 13 /\ FlagsDecoratorAt = {3}
    /\ cmd = NoCmd /\ Len(buildErr) = 2
    /\ buildErr[2].arg = "*uint"
    /\ 5 \notin Range(applied) /\ 9 \notin Range(applied) /\ 12 \notin Range(applied)

\* the entries of both flag sets of the built command with the name of f
Registered(f) ==
    {<<"local", i>> : i \in {j \in 1..Len(cmd.Flags) : cmd.Flags[j].Name = f.Long}}
    \cup {<<"persistent", i>> :
             i \in {j \in 1..Len(cmd.PersistentFlags) : cmd.PersistentFlags[j].Name = f.Long}}

EntryOf(r) == IF r[1] = "local" THEN cmd.Flags[r[2]] ELSE cmd.PersistentFlags[r[2]]

\* the text of the zero value of each supported target type
ZeroText(ptr) ==
    IF ptr = "*string" THEN ""
    ELSE IF ptr = "*bool" THEN "false"
    ELSE IF ptr = "*time.Duration" THEN "0s"
    ELSE IF ptr \in {"*int", "*int8", "*int16", "*int32", "*int64", "*float32", "*float64"}
      THEN "0"
    ELSE "[]"

\* C20: after a successful build with the flags decorator every descriptor
\* of Flags() is registered exactly once, under its long and short name, in
\* the persistent set iff Persistent and in the local set otherwise, with
\* the zero value of its type as default when it has no Default, marked
\* required with " (required)" appended to its usage iff Required, and
\* marked hidden iff Hidden.
C20_Registration ==
    (constructed /\ ~cmd.isNil /\ "Flags" \in c.caps /\ FlagsDecoratorAt # {})
        => \A k \in 1..Len(c.flags) :
              LET f == c.flags[k]
              IN /\ Cardinality(Registered(f)) = 1
                 /\ \A r \in Registered(f) :
                       /\ (r[1] = "persistent") <=> f.Persistent
                       /\ EntryOf(r).Shorthand = f.Short
                       /\ ~f.Default.set => EntryOf(r).DefValue = ZeroText(f.Ptr)
                       /\ EntryOf(r).Required <=> f.Required
                       /\ EntryOf(r).Usage =
                             (IF f.Required THEN f.Usage \o " (required)" ELSE f.Usage)
                       /\ EntryOf(r).Hidden <=> f.Hidden

\* the default pipeline registered a required local string flag and a hidden
\* persistent int flag
C20_Witness ==
    /\ constructed /\ ~cmd.isNil /\ c.flags = GoodFlags /\ "Flags" \in c.caps
    /\ Len(cmd.Flags) = 1 /\ Len(cmd.PersistentFlags) = 1
    /\ cmd.Flags[1].Name = "flag1" /\ cmd.Flags[1].Required
    /\ cmd.Flags[1].Usage = "flag1 usage (required)" /\ cmd.Flags[1].DefValue = ""
    /\ cmd.PersistentFlags[1].Name = "flag2" /\ cmd.PersistentFlags[1].Hidden
    /\ cmd.PersistentFlags[1].DefValue = "0"

-----------------------------------------------------------------------------
(* Properties of BuildFlags, stated on the index paths of the fields.      *)

RECURSIVE Exists(_, _)
RECURSIVE FieldAt(_, _)
RECURSIVE Reached(_, _)

\* the index path p names a field of the struct with the fields fs
Exists(fs, p) ==
    /\ p[1] \in 1..Len(fs)
    /\ Len(p) > 1 => Exists(fs[p[1]].Fields, Tail(p))

FieldAt(fs, p) == IF Len(p) = 1 THEN fs[p[1]] ELSE FieldAt(fs[p[1]].Fields, Tail(p))

Tagged(f) == "long" \in DOMAIN f.Tag \/ "short" \in DOMAIN f.Tag

\* every field on the way to p is a struct without a long or short tag
Reached(fs, p) ==
    Len(p) > 1 => /\ ~Tagged(fs[p[1]])
                  /\ fs[p[1]].Kind = "struct"
                  /\ Reached(fs[p[1]].Fields, Tail(p))

IndexPaths == UNION { [1..n -> 1..4] : n \in 1..3 }

\* the tagged fields BuildFlags is to describe
FlagPaths ==
    {p \in IndexPaths : /\ Exists(obj.Elem.Fields, p)
                        /\ Reached(obj.Elem.Fields, p)
                        /\ Tagged(FieldAt(obj.Elem.Fields, p))}

\* declaration order, a nested struct's fields at the place of the struct
Before(p, q) ==
    \E k \in 1..Len(p) :
        /\ k <= Len(q)
        /\ \A j \in 1..(k - 1) : p[j] = q[j]
        /\ p[k] < q[k]

BoolTexts == {"1", "t", "T", "TRUE", "true", "True", "0", "f", "F", "FALSE", "false", "False"}
BoolTags  == <<"required", "persistent", "hidden">>

BadTags(f) == {k \in 1..3 : BoolTags[k] \in DOMAIN f.Tag /\ f.Tag[BoolTags[k]] \notin BoolTexts}

BadPaths == {p \in FlagPaths : BadTags(FieldAt(obj.Elem.Fields, p)) # {}}

IsStructPtr == obj.Kind = "ptr" /\ obj.Elem.Kind = "struct"

TagOr(f, key) == IF key \in DOMAIN f.Tag THEN f.Tag[key] ELSE ""

\* C17: for a pointer to a struct whose boolean tags parse, BuildFlags
\* returns exactly one descriptor per field with a long or short tag that is
\* reached through untagged struct fields alone, in declaration order with a
\* nested struct's descriptors at the place of the nesting field; untagged
\* fields of other kinds, and the fields of a tagged struct, give none.
C17_Order ==
    (out.done /\ IsStructPtr /\ BadPaths = {})
        => /\ out.panic = ""
           /\ Len(out.flags) = Cardinality(FlagPaths)
           /\ \A k \in 1..Len(out.flags) :
                 /\ out.flags[k].Ptr.addr \in FlagPaths
                 /\ out.flags[k].Long =
                       TagOr(FieldAt(obj.Elem.Fields, out.flags[k].Ptr.addr), "long")
                 /\ out.flags[k].Short =
                       TagOr(FieldAt(obj.Elem.Fields, out.flags[k].Ptr.addr), "short")
           /\ \A k, l \in 1..Len(out.flags) :
                 k < l => Before(out.flags[k].Ptr.addr, out.flags[l].Ptr.addr)

\* the README's embedded ConduitConfig, followed by a tagged field
C17_Witness ==
    /\ out.done /\ IsStructPtr /\ Len(obj.Elem.Fields) = 2
    /\ obj.Elem.Fields[1].Name = "ConduitConfig" /\ obj.Elem.Fields[2].Name = "Level"
    /\ Len(out.flags) = 4
    /\ out.flags[1].Long = "config.path" /\ out.flags[1].Ptr.addr = <<1, 1>>
    /\ out.flags[2].Long = "connectors.path" /\ out.flags[2].Ptr.addr = <<1, 2, 1>>
    /\ out.flags[3].Short = "d" /\ out.flags[3].Ptr.addr = <<1, 4>>
    /\ out.flags[4].Long = "level" /\ out.flags[4].Ptr.addr = <<2>>
    /\ out.flags[4].Required /\ out.flags[4].Persistent /\ ~out.flags[4].Hidden

\* C18: BuildFlags on anything but a pointer to a struct panics and returns
\* no Flags; a required, persistent or hidden tag that is no boolean, on a
\* field at any depth, panics with an error that names the tag, and no
\* descriptor of the fields before it is returned.
C18_Fatal ==
    out.done =>
        /\ obj.Kind # "ptr" => out = Panic("expected a pointer, got " \o obj.Kind)
        /\ (obj.Kind = "ptr" /\ obj.Elem.Kind # "struct")
              => out = Panic("expected a struct, got " \o obj.Elem.Kind)
        /\ (IsStructPtr /\ BadPaths # {})
              => LET p == CHOOSE q \in BadPaths : \A r \in BadPaths \ {q} : Before(q, r)
                     f == FieldAt(obj.Elem.Fields, p)
                     t == CHOOSE k \in BadTags(f) : \A j \in BadTags(f) : k <= j
                 IN /\ out.panic = "error parsing tag \"" \o BoolTags[t] \o "\""
                    /\ out.flags = <<>>

\* a field whose tags parse, then a struct that nests a field with
\* hidden:"nope" two levels down
C18_Witness ==
    /\ out.done /\ IsStructPtr /\ Len(obj.Elem.Fields) = 2
    /\ obj.Elem.Fields[1].Name = "Path" /\ obj.Elem.Fields[2].Name = "Broken"
    /\ BadPaths = {<<2, 2, 1>>} /\ Cardinality(FlagPaths) = 3
    /\ out.panic = "error parsing tag \"hidden\"" /\ out.flags = <<>>

-----------------------------------------------------------------------------
(* Properties of executions, stated on the list, the value and the input.  *)

\* the command value behind the executed command, and that command
RunValue == IF input.target = 0 THEN c ELSE c.subs[input.target]
RunCmd   == IF input.target = 0 THEN cmd ELSE cmd.Commands[input.target]

\* the names in the trace of the events of one sort
Names(sort) ==
    LET evs == SelectSeq(trace, LAMBDA e : e.ev = sort)
    IN [k \in 1..Len(evs) |-> evs[k].name]

Count(sort, name) == Cardinality({k \in 1..Len(trace) :
                                     trace[k].ev = sort /\ trace[k].name = name})

At(sort, name) == CHOOSE k \in 1..Len(trace) : trace[k].ev = sort /\ trace[k].name = name

\* the hooks of one phase the list installs for the value, in list order
Installed(kinds) ==
    LET ds == SelectSeq(Decorators,
                        LAMBDA d : d.kind \in kinds /\ Capability(d.kind) \in RunValue.caps)
    IN [k \in 1..Len(ds) |-> Capability(ds[k].kind)]

PreRunKinds == {"CommandWithParsingConfigDecorator", "CommandWithDeprecatedDecorator",
                "CommandWithArgsDecorator"}
RunKinds    == {"CommandWithConfirmDecorator", "CommandWithPromptDecorator",
                "CommandWithExecuteDecorator"}

ExpectedHooks == Installed(PreRunKinds) \o Installed(RunKinds)

Bypassed == input.force \/ input.yolo
Matches  == input.stdin \in {<<"y", "e", "s", "\n">>, <<"y", "e", "s", "\r", "\n">>}

\* the hook returns an error on this input
HookFails(h) ==
    \/ h = "ParsingConfig" /\ files[StaticPath].state # "ok"
    \/ h = "Args" /\ input.argsErr
    \/ h = "Confirm" /\ ~Bypassed /\ ~Matches
    \/ h = "Execute" /\ input.executeErr

\* the hook ends the process on this input
HookExits(h) == h = "Prompt" /\ ~Bypassed /\ ~input.skipPrompt /\ ~input.promptOk

Stops == {k \in 1..Len(ExpectedHooks) :
             HookFails(ExpectedHooks[k]) \/ HookExits(ExpectedHooks[k])}
FirstStop == CHOOSE k \in Stops : \A j \in Stops : k <= j

\* C12: the hooks a build installed run in decorator-list order, the pre-run
\* hooks before the run hooks, none is lost; when a hook returns an error
\* no later hook runs and that error is the result of the execution.
C12_Chain ==
    (ran /\ RunCmd.RunE # <<>>)
        => IF Stops = {}
           THEN Names("hook") = ExpectedHooks /\ runErr = NoErr /\ ~exited
           ELSE /\ Names("hook") = SubSeq(ExpectedHooks, 1, FirstStop)
                /\ HookFails(ExpectedHooks[FirstStop]) => runErr # NoErr
                /\ (HookFails(ExpectedHooks[FirstStop])
                      /\ ExpectedHooks[FirstStop] = "Args") => runErr[1].msg = "args"
                /\ (HookFails(ExpectedHooks[FirstStop])
                      /\ ExpectedHooks[FirstStop] = "Execute") => runErr[1].msg = "execute"
                /\ (HookFails(ExpectedHooks[FirstStop])
                      /\ ExpectedHooks[FirstStop] = "ParsingConfig")
                     => runErr[1].msg = "fatal error config file"

\* configuration, deprecation and args ran in this order and args returned
\* an error: Execute did not run
C12_Witness ==
    /\ ran /\ Decorators = DefaultDecorators
    /\ c.caps = {"ParsingConfig", "Deprecated", "Args", "Execute"}
    /\ input.argsErr
    /\ Names("hook") = <<"ParsingConfig", "Deprecated", "Args">>
    /\ runErr # NoErr /\ runErr[1].msg = "args"
    /\ Count("call", "Execute") = 0

\* the logger the logger decorator of the list hands over
LoggerOf(d) == IF d.inst = "zero" THEN "slog.Default()" ELSE d.inst

\* C13: a build of a value that implements logger, args and execute calls
\* Usage and then Logger on it, with the logger the decorator holds or the
\* default logger, and calls neither Args nor Execute; an execution calls
\* Args once and then, when Args returned nil, Execute once with the context
\* the execution was handed.
C13_BuildVersusRun ==
    /\ \A k \in 1..Len(calls) : calls[k].method \notin {"Args", "Execute"}
    /\ ~ran => trace = <<>>
    /\ (constructed /\ ~cmd.isNil /\ c.caps = {"Args", "Logger", "Execute"}
          /\ Len(Decorators) >= 12
          /\ Decorators[1].kind = "CommandWithLoggerDecorator")
         => /\ calls = <<Call("Usage", ""), Call("Logger", LoggerOf(Decorators[1]))>>
            /\ ran => /\ Count("call", "Args") = 1
                      /\ Count("call", "Execute") = (IF input.argsErr THEN 0 ELSE 1)
                      /\ ~input.argsErr =>
                            /\ At("call", "Args") < At("call", "Execute")
                            /\ trace[At("call", "Execute")].arg = input.ctx

\* the test's pipeline, with wantLogger injected, built and executed the
\* test's command with a context other than the background context
C13_Witness ==
    /\ ran /\ c = BehavioralTestCommand
    /\ Decorators[1] = Decorator("CommandWithLoggerDecorator", FALSE, "wantLogger")
    /\ calls = <<Call("Usage", ""), Call("Logger", "wantLogger")>>
    /\ input.ctx = "context.WithValue(k, v)"
    /\ runErr = NoErr
    /\ Names("call") = <<"Args", "Execute">>
    /\ trace[At("call", "Execute")].arg = "context.WithValue(k, v)"

\* the decorator of kind a stands before the decorator of kind b in the list
ListedBefore(a, b) ==
    \E i, j \in 1..Len(Decorators) :
        i < j /\ Decorators[i].kind = a /\ Decorators[j].kind = b

\* C14: for a value with value confirmation and execute, decorated in this
\* order: without --force and --yolo one line is read from standard input,
\* and when it is not the value to confirm once trailing CR and LF are
\* removed, or the read fails, the execution returns an error ("action
\* aborted" on a mismatch) and Execute is not called; with --force or
\* --yolo nothing is read, ValueToConfirm is not called, Execute is called.
C14_ConfirmGate ==
    (ran /\ {"Confirm", "Execute"} \subseteq RunValue.caps
       /\ ListedBefore("CommandWithConfirmDecorator", "CommandWithExecuteDecorator")
       /\ Installed(PreRunKinds) = <<>>)
        => IF Bypassed
           THEN /\ Count("read", "stdin") = 0
                /\ Count("call", "ValueToConfirm") = 0
                /\ Count("call", "Execute") = 1
           ELSE /\ Count("read", "stdin") = 1
                /\ Count("call", "ValueToConfirm") = 1
                /\ IF Matches
                   THEN /\ Count("call", "Execute") = 1
                        /\ At("read", "stdin") < At("call", "Execute")
                   ELSE /\ Count("call", "Execute") = 0
                        /\ runErr # NoErr
                        /\ "\n" \in Range(input.stdin) => runErr[1].msg = "action aborted"
                        /\ "\n" \notin Range(input.stdin)
                              => runErr[1].msg = "failed to read user input"

\* "yes" followed by CR LF was read and Execute was called after it
C14_Witness ==
    /\ ran /\ c.caps = {"Confirm", "Execute"} /\ Decorators = DefaultDecorators
    /\ ~Bypassed /\ input.stdin = <<"y", "e", "s", "\r", "\n">>
    /\ Names("call") = <<"ValueToConfirm", "Execute">>
    /\ runErr = NoErr

\* C15: for a value with the yes/no prompt: without --force, --yolo and
\* SkipPrompt the run hook calls Prompt, and when Prompt reports not-ok the
\* message is printed and the process ends, with no error returned and
\* Execute not called; with a bypass Prompt is not called and Execute is.
C15_PromptGate ==
    (ran /\ "Prompt" \in RunValue.caps
       /\ \E i \in 1..Len(Decorators) : Decorators[i].kind = "CommandWithPromptDecorator")
        => IF Bypassed \/ input.skipPrompt
           THEN /\ Count("call", "Prompt") = 0
                /\ ~exited
                /\ ("Execute" \in RunValue.caps
                      /\ ListedBefore("CommandWithPromptDecorator",
                                      "CommandWithExecuteDecorator"))
                     => Count("call", "Execute") = 1
           ELSE /\ Count("call", "Prompt") = 1
                /\ exited <=> ~input.promptOk
                /\ ~input.promptOk =>
                      /\ runErr = NoErr
                      /\ Count("print", "message") = 1
                      /\ Count("call", "Execute") = 0
                      /\ trace[Len(trace)] = Ev("exit", "1", "")
                /\ (input.promptOk /\ "Execute" \in RunValue.caps
                      /\ ListedBefore("CommandWithPromptDecorator",
                                      "CommandWithExecuteDecorator"))
                     => Count("call", "Execute") = 1

\* Prompt reported not-ok: the process ended before Execute
C15_Witness ==
    /\ ran /\ c.caps = {"Prompt", "Execute"} /\ Decorators = DefaultDecorators
    /\ ~Bypassed /\ ~input.skipPrompt /\ ~input.promptOk
    /\ exited /\ runErr = NoErr
    /\ Names("call") = <<"SkipPrompt", "Prompt">>

\* C16: a value with the deprecation capability builds to a hidden command,
\* and every execution of it that reaches the deprecation hook prints the
\* notice, with the parent's name before the command's, unless --json was
\* supplied; this whether or not a pre-run hook was installed before.
C16_Deprecation ==
    (ran /\ "Deprecated" \in RunValue.caps /\ RunCmd.RunE # <<>>
       /\ \E i \in 1..Len(Decorators) : Decorators[i].kind = "CommandWithDeprecatedDecorator")
        => /\ RunCmd.Hidden
           /\ Count("hook", "Deprecated") = 1
                => IF input.json
                   THEN Count("print", "deprecated") = 0
                   ELSE /\ Count("print", "deprecated") = 1
                        /\ trace[At("print", "deprecated")].arg =
                              (IF input.target = 0 THEN cmd.Use
                               ELSE cmd.Use \o " " \o RunCmd.Use)

-----------------------------------------------------------------------------
(* Properties of the options and of the hidden mark.                       *)

\* the indices of the entries of list that are of the kind of d
OfKind(list, d) == {i \in 1..Len(list) : list[i].kind = d.kind}

\* the decorator of the kind of d that the arguments args supply last
SuppliedLast(args, d) ==
    args[CHOOSE k \in OfKind(args, d) : \A j \in OfKind(args, d) : j <= k]

\* C28: the decorator list never holds two decorators of the same
\* underlying kind, whatever options were applied and however many
\* instances of one kind a WithDecorators call supplied; after such a call
\* the entry of each supplied kind is the instance the call supplied last,
\* and the entries of the other kinds are as they were.
C28_KindUnique ==
    /\ \A i, j \in 1..Len(Decorators) :
          Decorators[i].kind = Decorators[j].kind => i = j
    /\ lastOpt.kind = "WithDecorators" =>
          /\ \A k \in 1..Len(lastOpt.args) :
                \E i \in 1..Len(Decorators) :
                    Decorators[i] = SuppliedLast(lastOpt.args, lastOpt.args[k])
          /\ \A i \in 1..Len(lastOpt.before) :
                OfKind(lastOpt.args, lastOpt.before[i]) = {}
                   => Decorators[i] = lastOpt.before[i]
          /\ \A i \in 1..Len(Decorators) :
                \/ OfKind(lastOpt.args, Decorators[i]) # {}
                \/ i <= Len(lastOpt.before) /\ Decorators[i] = lastOpt.before[i]

\* one call supplied two instances of a kind the list did not hold: the list
\* holds the second of them, once
C28_Witness ==
    /\ lastOpt.kind = "WithDecorators"
    /\ lastOpt.args = << Decorator("myDecorator", FALSE, "ok"),
                         Decorator("myDecorator", TRUE, "fails") >>
    /\ OfKind(lastOpt.before, lastOpt.args[1]) = {}
    /\ Decorators = Append(lastOpt.before, Decorator("myDecorator", TRUE, "fails"))

\* C29: options apply in the order given, and WithoutDefaultDecorators
\* empties the whole list: after it the list is empty whatever an earlier
\* WithDecorators put there, and a WithDecorators(d) that follows it leaves
\* the one-element list of d.
C29_OptionOrder ==
    /\ lastOpt.kind = "WithoutDefaultDecorators" => Decorators = <<>>
    /\ (lastOpt.kind = "WithDecorators" /\ lastOpt.before = <<>>
          /\ Len(lastOpt.args) = 1) => Decorators = <<lastOpt.args[1]>>

\* New(WithDecorators(d), WithoutDefaultDecorators()): d is gone
C29_Witness ==
    /\ optsLeft = MaxOpts - 2
    /\ lastOpt.kind = "WithoutDefaultDecorators"
    /\ Len(lastOpt.before) = Len(DefaultDecorators) + 1
    /\ lastOpt.before[Len(lastOpt.before)] = Decorator("myDecorator", FALSE, "ok")
    /\ Decorators = <<>>

\* C30: under the default list a command value with the deprecation
\* capability builds to a hidden command, also when it implements Hidden()
\* and Hidden() returns false; a value without the deprecation capability
\* builds to a command that is hidden exactly when it implements Hidden()
\* and Hidden() returns true.
C30_DeprecatedHides ==
    (constructed /\ ~cmd.isNil /\ Decorators = DefaultDecorators)
        => cmd.Hidden = ("Deprecated" \in c.caps \/ ("Hidden" \in c.caps /\ c.hidden))

\* a deprecated value whose Hidden() returns false was built hidden
C30_Witness ==
    /\ constructed /\ ~cmd.isNil /\ Decorators = DefaultDecorators
    /\ c.caps = {"Hidden", "Deprecated"} /\ ~c.hidden
    /\ calls = <<Call("Usage", ""), Call("Hidden", "")>>
    /\ cmd.Hidden

-----------------------------------------------------------------------------
(* Properties of children, of the context and of the two prompts.          *)

\* the children the last build built, by usage, in the order of the builds
BuiltChildren ==
    LET bs == SelectSeq(calls, LAMBDA m : m.method = "BuildCobraCommand")
    IN [k \in 1..Len(bs) |-> bs[k].arg]

\* where the subcommands decorator stands in the list
SubCommandsAt ==
    {i \in 1..Len(Decorators) : Decorators[i].kind = "CommandWithSubCommandsDecorator"}

RECURSIVE BuildFails(_)
\* a build of the value cv by the list returns an error
BuildFails(cv) ==
    \/ \E j \in 1..Len(Decorators) : FailsOn(Decorators[j], cv)
    \/ /\ SubCommandsAt # {}
       /\ "SubCommands" \in cv.caps
       /\ \E k \in 1..Len(cv.subs) : BuildFails(cv.subs[k])

BadChildren == {k \in 1..Len(c.subs) : BuildFails(c.subs[k])}
FirstBad    == CHOOSE k \in BadChildren : \A j \in BadChildren : k <= j

\* C21: when the subcommands decorator is reached for a value that declares
\* children, the children are built by the same list in declared order and,
\* when all build, the command's children are the commands these builds
\* return, in declared order, grandchildren included; when the build of a
\* child fails, no later child is built and the build of the parent fails
\* with an error that names the usage of that child.
C21_SubCommands ==
    (constructed /\ ~Panicked /\ "SubCommands" \in c.caps /\ SubCommandsAt # {}
       /\ \A s \in SubCommandsAt : \A j \in 1..(s - 1) : ~FailsOn(Decorators[j], c))
        => IF BadChildren = {}
           THEN /\ BuiltChildren = [k \in 1..Len(c.subs) |-> c.subs[k].usage]
                /\ buildErr = NoErr =>
                      /\ Len(cmd.Commands) = Len(c.subs)
                      /\ \A k \in 1..Len(c.subs) :
                            /\ cmd.Commands[k] = BuildCobraCommand(Decorators, c.subs[k]).cmd
                            /\ cmd.Commands[k].Use = c.subs[k].usage
                            /\ "SubCommands" \in c.subs[k].caps =>
                                  [j \in 1..Len(cmd.Commands[k].Commands) |->
                                      cmd.Commands[k].Commands[j].Use]
                                  = [j \in 1..Len(c.subs[k].subs) |-> c.subs[k].subs[j].usage]
           ELSE /\ BuiltChildren = [k \in 1..FirstBad |-> c.subs[k].usage]
                /\ cmd = NoCmd
                /\ Len(buildErr) >= 3
                /\ buildErr[1] = [msg |-> "failed to decorate command with",
                                  arg |-> "ecdysis.CommandWithSubCommandsDecorator"]
                /\ buildErr[2] = [msg |-> "failed to build subcommand",
                                  arg |-> c.subs[FirstBad].usage]

\* the second of three children failed to build: the third was not built
C21_Witness ==
    /\ constructed /\ Decorators = DefaultDecorators
    /\ c.subs = <<subCmd, badSub, subCmd>>
    /\ BuiltChildren = <<"subCmd", "badSub">>
    /\ cmd = NoCmd
    /\ buildErr[2] = [msg |-> "failed to build subcommand", arg |-> "badSub"]

\* C22: CobraCmdFromContext returns the command ContextWithCobraCommand
\* stored and nil for a context no command was stored in, and the context
\* Execute receives from a command of the default pipeline holds the command
\* that is executed.
C22_CommandInContext ==
    /\ \A name \in Contexts :
          /\ CobraCmdFromContext(ContextOf(name)) = NoCmd
          /\ \A x \in {cmd} \cup Range(cmd.Commands) :
                CobraCmdFromContext(ContextWithCobraCommand(ContextOf(name), x)) = x
    /\ (ran /\ Decorators = DefaultDecorators /\ Count("call", "Execute") = 1)
          => CobraCmdFromContext(ContextOf(trace[At("call", "Execute")].arg)) = RunCmd

\* C26: for a value with value confirmation, the yes/no prompt and execute
\* the default list builds a command, with one force and one yolo flag, whose
\* run hooks are confirmation, prompt and Execute in this order, and an
\* execution that none of them stops runs the three in this order.
C26_ConfirmAndPrompt ==
    (constructed /\ Decorators = DefaultDecorators
       /\ {"Confirm", "Prompt", "Execute"} \subseteq c.caps)
        => /\ buildErr = NoErr
           /\ ~cmd.isNil
           /\ Cardinality({k \in 1..Len(cmd.Flags) : cmd.Flags[k].Name = "force"}) = 1
           /\ Cardinality({k \in 1..Len(cmd.Flags) : cmd.Flags[k].Name = "yolo"}) = 1
           /\ cmd.RunE = <<"Confirm", "Prompt", "Execute">>
           /\ (ran /\ Stops = {}) => Names("hook") = <<"Confirm", "Prompt", "Execute">>

-----------------------------------------------------------------------------
(* Isolation of the lists.                                                 *)

\* C27: no option applied to an instance changes the package's
\* DefaultDecorators or the list of another instance, and a build leaves
\* the list of its instance as it found it.
C27_Isolation ==
    [][ /\ defaultDecorators' = DefaultDecorators
        /\ otherDecorators' = DefaultDecorators
        /\ constructed' => Decorators' = Decorators ]_vars

\* an option replaced the logger decorator in place, a build and an
\* execution followed: the package's list and the other instance's list
\* still hold the default logger decorator
C27_Witness ==
    /\ constructed /\ ran /\ c = BehavioralTestCommand
    /\ Len(Decorators) = Len(DefaultDecorators)
    /\ Decorators[1] = Decorator("CommandWithLoggerDecorator", FALSE, "wantLogger")
    /\ defaultDecorators[1] = Decorator("CommandWithLoggerDecorator", FALSE, "zero")
    /\ otherDecorators = DefaultDecorators

-----------------------------------------------------------------------------
(* The descriptors of BuildFlags, and the registry of Flags.               *)

\* the tagged fields BuildFlags describes are plain values with a long name
LongLeaves ==
    \A p \in FlagPaths :
        /\ FieldAt(obj.Elem.Fields, p).Kind \notin {"struct", "ptr"}
        /\ TagOr(FieldAt(obj.Elem.Fields, p), "long") # ""

\* C23: for a defaults struct whose tagged fields are plain values with a
\* long name, some of them inside nested structs that carry no long or short
\* tag, the keys setDefaults seeds are the long names of the descriptors
\* BuildFlags returns for the same struct.
C23_SeedsEmbedded ==
    (out.done /\ out.panic = "" /\ IsStructPtr /\ LongLeaves)
        => SeededKeys(obj) = {Chars(out.flags[k].Long) : k \in 1..Len(out.flags)}

\* C24: every descriptor BuildFlags returns has a non-empty Long or a
\* non-empty Short, also for a field whose long or short tag is present with
\* an empty value; its Default is unset and its Ptr refers to the field it
\* was built from.
C24_Descriptor ==
    (out.done /\ out.panic = "")
        => \A k \in 1..Len(out.flags) :
              /\ out.flags[k].Long # "" \/ out.flags[k].Short # ""
              /\ out.flags[k].Default = NilDefault
              /\ out.flags[k].Ptr.addr \in FlagPaths
              /\ out.flags[k].Ptr.type =
                    "*" \o FieldAt(obj.Elem.Fields, out.flags[k].Ptr.addr).Kind

\* the flags of the list before the last call that carry the long name asked for
Matching == {i \in 1..Len(regOp.before) : regOp.before[i].Long = regOp.long}
First    == CHOOSE i \in Matching : \A j \in Matching : i <= j

\* C25: GetFlag(long) returns the first descriptor in list order whose Long
\* is long, and the zero descriptor with false when there is none, and leaves
\* the list as it was; SetDefault(long, v) sets the Default of that first
\* descriptor to v, leaves every other descriptor, every other field, the
\* order and the length as they were, and returns true; with no such
\* descriptor it returns false and the list is as it was.
C25_Registry ==
    /\ regOp.op = "GetFlag"
          => /\ registry = regOp.before
             /\ regOp.ok = (Matching # {})
             /\ regOp.flag = IF Matching = {} THEN NoFlag ELSE regOp.before[First]
    /\ regOp.op = "SetDefault"
          => /\ regOp.ok = (Matching # {})
             /\ Len(registry) = Len(regOp.before)
             /\ \A i \in 1..Len(registry) :
                   IF Matching # {} /\ i = First
                   THEN /\ registry[i].Default = regOp.val
                        /\ [registry[i] EXCEPT !.Default = NilDefault]
                              = [regOp.before[i] EXCEPT !.Default = NilDefault]
                   ELSE registry[i] = regOp.before[i]

\* two fields with the long name "path": the default of the first is set,
\* the second keeps none
C25_Witness ==
    /\ regOp.op = "SetDefault" /\ regOp.ok /\ regOp.long = "path"
    /\ Len(registry) = 2
    /\ registry[1].Long = "path" /\ registry[2].Long = "path"
    /\ registry[1].Default = SomeDefault("/etc/conduit")
    /\ registry[2].Default = NilDefault
    /\ registry[1].Ptr # registry[2].Ptr

====
